---- MODULE Spec2Model ----
(***************************************************************************)
(* Ownership model of the minimal smart pointers of SRombauts/shared_ptr.  *)
(*                                                                         *)
(* shared_ptr<T> (src/src/shared_ptr.hpp) is modelled over an explicit     *)
(* heap: managed objects and counter cells are numbered in allocation      *)
(* order and never reused, so a dangling pointer stays recognisable.       *)
(* Handles are the program's shared_ptr variables; a handle that is not    *)
(* live is a variable whose constructor has not run or whose destructor    *)
(* has run.  The by-value parameter of operator= is the extra handle Tmp.  *)
(*                                                                         *)
(* unique_ptr<T> (src/include/unique_ptr.hpp) is modelled over the same    *)
(* heap of objects; it has a native pointer and no counter.                *)
(***************************************************************************)
EXTENDS Integers, Sequences, FiniteSets, TLC

\* ------------------------------------------------------------------ bounds

\* number of named shared_ptr variables of the program
NumHandles == 3
\* number of objects the program allocates with new
MaxObj == 2
\* number of named unique_ptr variables of the program
NumUnique == 2

\* ------------------------------------------------------------- the program

\* the null pointer (px, pn and raw pointers)
NULL == 0

Handles == 1..NumHandles
\* the by-value parameter `ptr` of operator=(shared_ptr ptr)
Tmp == NumHandles + 1
Slots == 1..(NumHandles + 1)

\* the unique_ptr variables, and the by-value parameter `ptr` of
\* unique_ptr::operator=(unique_ptr ptr)
UHandles == 1..NumUnique
UTmp == NumUnique + 1
USlots == 1..(NumUnique + 1)

\* class A / class B : public A of the pointer_conv and pointer_cast tests
Types == {"A", "B"}

\* the static type T of each shared_ptr<T> variable: fixed at compile time
StaticType(h) == IF h = 1 THEN "B" ELSE "A"

\* X* converts implicitly to T* (same class, or derived to base)
Convertible(X, T) == IF X = T THEN TRUE ELSE (X = "B" /\ T = "A")

VARIABLES
    px,      \* px[h]: shared_ptr::px, the native pointer (object number or NULL)
    pn,      \* pn[h]: shared_ptr::pn.pn, the counter pointer (cell number or NULL)
    live,    \* live[h]: the handle is constructed and not yet destroyed
    objs,    \* the heap of managed objects, in allocation order
    cells,   \* the heap of counter cells (long), in allocation order
    vlen,    \* size() of the std::vector<shared_ptr<A> > of the std_container test
    pc,      \* position of the running operation
    sig,     \* how the last operation ended: none, bad_alloc, terminate, assert,
             \* ill_formed (the call does not compile), abort (the allocator
             \* ended the program on a second delete of one block)
    last,    \* the last operation, its arguments and what it observed before
    upx,     \* upx[u]: unique_ptr::px, the native pointer of unique_ptr u
    ulive,   \* ulive[u]: the unique_ptr is constructed and not yet destroyed
    utype,   \* utype[u]: the static type T of the unique_ptr<T> variable u
    uvlen,   \* size() of the std::vector<unique_ptr<A> > of the std_container test
    thr,     \* thr[t]: where thread t stands in the constructor or destructor
             \* it runs, the handle it works on and the counter value it loaded
    raced,   \* two threads have been inside acquire/release of one counter
             \* at the same time
    held     \* held[h] (older revision): h was given a share and has not been
             \* reset or destroyed since

vars == <<px, pn, live, objs, cells, vlen, pc, sig, last, upx, ulive, utype,
          uvlen, thr, raced, held>>

\* the heap and the handles as one value, so that the calls of one handler compose
Cur == [px |-> px, pn |-> pn, live |-> live, objs |-> objs, cells |-> cells,
        sig |-> "none", upx |-> upx, ulive |-> ulive, utype |-> utype]

\* the two threads that use handles of one lineage without a lock
Threads == 1..2

\* a thread that runs no constructor or destructor
IdleThread == [pc |-> "idle", h |-> NULL, src |-> NULL, reg |-> 0]

\* a managed object as allocated by new: its dynamic type, and how often
\* delete has run on it
NewObj(t) == [dyn |-> t, alive |-> TRUE, dtor |-> 0]

\* delete p (delete of a null pointer does nothing)
Delete(os, p) ==
    IF p = NULL THEN os
    ELSE [os EXCEPT ![p].alive = FALSE, ![p].dtor = @ + 1]

\* shared_ptr_count::use_count of the counter pointer n
CountUseCount(cs, n) == IF n # NULL THEN cs[n].val ELSE 0

\* shared_ptr::use_count of handle h in state s
UseCountIn(s, h) == CountUseCount(s.cells, s.pn[h])

\* faulty variant of CountAcquire: leaks p when new long(1) fails
CountAcquire_Leak(s, h, p, ok) ==
    IF p # NULL
    THEN IF s.pn[h] = NULL
         THEN IF ok
              THEN [s EXCEPT !.cells = Append(@, [val |-> 1, alive |-> TRUE]),
                             !.pn[h] = Len(s.cells) + 1]
              ELSE [s EXCEPT !.sig = "bad_alloc"]
         ELSE [s EXCEPT !.cells[s.pn[h]].val = @ + 1]
    ELSE s

\* shared_ptr_count::acquire(p) on the counter of handle h; ok is whether
\* new long(1) succeeds
CountAcquire(s, h, p, ok) ==
    IF p # NULL
    THEN IF s.pn[h] = NULL
         THEN IF ok
              THEN [s EXCEPT !.cells = Append(@, [val |-> 1, alive |-> TRUE]),
                             !.pn[h] = Len(s.cells) + 1]
              ELSE [s EXCEPT !.objs = Delete(@, p), !.sig = "bad_alloc"]
         ELSE [s EXCEPT !.cells[s.pn[h]].val = @ + 1]
    ELSE s

\* faulty variant of CountRelease: nulls pn only when the count reached 0
CountRelease_KeepPn(s, h, p) ==
    IF s.pn[h] # NULL
    THEN LET n  == s.pn[h]
             s1 == [s EXCEPT !.cells[n].val = @ - 1]
         IN IF s1.cells[n].val = 0
            THEN [s1 EXCEPT !.objs = Delete(@, p), !.cells[n].alive = FALSE,
                            !.pn[h] = NULL]
            ELSE s1
    ELSE s

\* faulty variant of CountRelease: drops the counter without decrementing
CountRelease_NoDecrement(s, h, p) ==
    IF s.pn[h] # NULL THEN [s EXCEPT !.pn[h] = NULL] ELSE s

\* faulty variant of CountRelease: deletes p whatever the count
CountRelease_AlwaysDelete(s, h, p) ==
    IF s.pn[h] # NULL
    THEN LET n == s.pn[h] IN
         [s EXCEPT !.cells[n].val = @ - 1,
                   !.cells[n].alive = FALSE,
                   !.objs = Delete(@, p),
                   !.pn[h] = NULL]
    ELSE s

\* faulty variant of CountRelease: deletes p and keeps the counter at 0
CountRelease_KeepCounter(s, h, p) ==
    IF s.pn[h] # NULL
    THEN LET n  == s.pn[h]
             s1 == [s EXCEPT !.cells[n].val = @ - 1]
             s2 == IF s1.cells[n].val = 0
                   THEN [s1 EXCEPT !.objs = Delete(@, p)]
                   ELSE s1
         IN [s2 EXCEPT !.pn[h] = NULL]
    ELSE s

\* shared_ptr_count::release(p) on the counter of handle h
CountRelease(s, h, p) ==
    IF s.pn[h] # NULL
    THEN LET n  == s.pn[h]
             s1 == [s EXCEPT !.cells[n].val = @ - 1]
             s2 == IF s1.cells[n].val = 0
                   THEN [s1 EXCEPT !.objs = Delete(@, p),
                                   !.cells[n].alive = FALSE]
                   ELSE s1
         IN [s2 EXCEPT !.pn[h] = NULL]
    ELSE s

\* faulty variant of Acquire: stores px before the counter is acquired
Acquire_PxFirst(s, h, p, ok) ==
    CountAcquire([s EXCEPT !.px[h] = p], h, p, ok)

\* shared_ptr::acquire(p): px is set only when the counter did not throw
Acquire(s, h, p, ok) ==
    LET s1 == CountAcquire(s, h, p, ok)
    IN IF s1.sig = "bad_alloc" THEN s1 ELSE [s1 EXCEPT !.px[h] = p]

\* faulty variant of Release: leaves px as it was
Release_KeepPx(s, h) == CountRelease(s, h, s.px[h])

\* faulty variant of Release: lets go of the share of the next handle
Release_Other(s, h) ==
    LET g == (h % NumHandles) + 1
    IN [CountRelease(s, g, s.px[g]) EXCEPT !.px[g] = NULL]

\* shared_ptr::release()
Release(s, h) ==
    [CountRelease(s, h, s.px[h]) EXCEPT !.px[h] = NULL]

\* the exception specification throw(): an exception that leaves such a
\* function ends the program (std::unexpected, std::terminate)
NoThrow(s) == IF s.sig = "bad_alloc" THEN [s EXCEPT !.sig = "terminate"] ELSE s

\* SHARED_ASSERT(x): assert(x) aborts the program when x is false
SharedAssert(s, x) == IF x THEN s ELSE [s EXCEPT !.sig = "assert"]

\* the operation did not end the program and did not throw
Ran(s) == s.sig = "none"

\* shared_ptr(void): px(NULL), pn()
DefaultCtor(s, d) ==
    [s EXCEPT !.px[d] = NULL, !.pn[d] = NULL, !.live[d] = TRUE]

\* faulty variant of PtrCtor: stores the pointer without acquiring a counter
PtrCtor_NoCounter(s, d, p, ok) ==
    [s EXCEPT !.px[d] = p, !.pn[d] = NULL, !.live[d] = TRUE]

\* explicit shared_ptr(T* p): pn(), then acquire(p); when acquire throws the
\* handle was never constructed
PtrCtor(s, d, p, ok) ==
    LET s1 == Acquire([s EXCEPT !.pn[d] = NULL], d, p, ok)
    IN IF Ran(s1) THEN [s1 EXCEPT !.live[d] = TRUE] ELSE s1

\* shared_ptr(const shared_ptr<U>& ptr, T* p): pn(ptr.pn), then acquire(p)
ShareCtor(s, d, src, p, ok) ==
    LET s1 == Acquire([s EXCEPT !.pn[d] = s.pn[src]], d, p, ok)
    IN IF Ran(s1) THEN [s1 EXCEPT !.live[d] = TRUE]
       ELSE [s1 EXCEPT !.pn[d] = NULL]

\* the coherence assertion of the copy constructors
Coherent(s, src) == s.px[src] = NULL \/ UseCountIn(s, src) # 0

\* faulty variant of CopyCtor: allocates a counter of its own
CopyCtor_OwnCounter(s, d, src, ok) ==
    LET s0 == SharedAssert(s, Coherent(s, src))
        s1 == IF Ran(s0)
              THEN NoThrow(Acquire([s0 EXCEPT !.pn[d] = NULL], d, s.px[src], ok))
              ELSE s0
    IN IF Ran(s1) THEN [s1 EXCEPT !.live[d] = TRUE] ELSE s1

\* faulty variant of CopyCtor: does not increment the counter
CopyCtor_NoIncrement(s, d, src, ok) ==
    LET s0 == SharedAssert(s, Coherent(s, src))
    IN IF Ran(s0)
       THEN [s0 EXCEPT !.pn[d] = s.pn[src], !.px[d] = s.px[src], !.live[d] = TRUE]
       ELSE s0

\* shared_ptr(const shared_ptr& ptr) throw(): pn(ptr.pn), the assertion,
\* then acquire(ptr.px)
CopyCtor(s, d, src, ok) ==
    LET s0 == SharedAssert(s, Coherent(s, src))
        s1 == IF Ran(s0)
              THEN NoThrow(Acquire([s0 EXCEPT !.pn[d] = s.pn[src]], d, s.px[src], ok))
              ELSE s0
    IN IF Ran(s1) THEN [s1 EXCEPT !.live[d] = TRUE] ELSE s1

\* faulty variant of ConvCtor: does not increment the counter
ConvCtor_NoIncrement(s, d, src, ok) ==
    LET s0 == SharedAssert(s, Coherent(s, src))
    IN IF Ran(s0)
       THEN [s0 EXCEPT !.pn[d] = s.pn[src], !.px[d] = s.px[src], !.live[d] = TRUE]
       ELSE s0

\* template <class U> shared_ptr(const shared_ptr<U>& ptr) throw(): as the
\* copy constructor, with px converted by static_cast (the same object)
ConvCtor(s, d, src, ok) ==
    LET s0 == SharedAssert(s, Coherent(s, src))
        s1 == IF Ran(s0)
              THEN NoThrow(Acquire([s0 EXCEPT !.pn[d] = s.pn[src]], d, s.px[src], ok))
              ELSE s0
    IN IF Ran(s1) THEN [s1 EXCEPT !.live[d] = TRUE] ELSE s1

\* faulty variant of Dtor: the handle goes without release()
Dtor_NoRelease(s, h) == [s EXCEPT !.live[h] = FALSE]

\* ~shared_ptr(void) throw(): release()
Dtor(s, h) == [Release(s, h) EXCEPT !.live[h] = FALSE]

\* reset(void) throw(): release()
ResetVoid(s, h) == Release(s, h)

\* faulty variant of ResetPtr: acquires p without release()
ResetPtr_AcquireFirst(s, h, p, ok) ==
    LET s0 == SharedAssert(s, p = NULL \/ s.px[h] # p)
    IN IF Ran(s0) THEN NoThrow(Acquire(s0, h, p, ok)) ELSE s0

\* reset(T* p) throw(): the auto-reset assertion, release(), acquire(p)
ResetPtr(s, h, p, ok) ==
    LET s0 == SharedAssert(s, p = NULL \/ s.px[h] # p)
    IN IF Ran(s0) THEN NoThrow(Acquire(Release(s0, h), h, p, ok)) ELSE s0

\* faulty variant of Swap: exchanges the pointers and leaves the counters
Swap_PxOnly(s, a, b) == [s EXCEPT !.px[a] = s.px[b], !.px[b] = s.px[a]]

\* swap(shared_ptr& lhs) throw(): std::swap(px, lhs.px); pn.swap(lhs.pn)
Swap(s, a, b) ==
    [s EXCEPT !.px[a] = s.px[b], !.px[b] = s.px[a],
              !.pn[a] = s.pn[b], !.pn[b] = s.pn[a]]

\* faulty variant of AssignParam: releases a before b is copied
AssignParam_ReleaseFirst(s, a, b, ok) ==
    CopyCtor(Release(s, a), Tmp, b, ok)

\* shared_ptr& operator=(shared_ptr ptr) throw(): the by-value parameter
\* ptr (the handle Tmp) is copy-constructed from the right-hand side b before
\* the body runs, by the converting constructor when b is a shared_ptr<U>
AssignParam(s, a, b, ok) ==
    IF StaticType(a) = StaticType(b)
    THEN CopyCtor(s, Tmp, b, ok)
    ELSE ConvCtor(s, Tmp, b, ok)

\* static_cast / dynamic_cast of the native pointer of src to T*: the same
\* object, or NULL when dynamic_cast finds the object is no T
DynamicCastPtr(s, src, T) ==
    IF s.px[src] # NULL /\ Convertible(s.objs[s.px[src]].dyn, T)
    THEN s.px[src] ELSE NULL

\* faulty variant of StaticPointerCast: adopts the pointer on a counter of
\* its own
StaticPointerCast_OwnCounter(s, d, src, ok) == PtrCtor(s, d, s.px[src], ok)

\* static_pointer_cast<T>(ptr): shared_ptr<T>(ptr, static_cast<T*>(ptr.get()))
StaticPointerCast(s, d, src, ok) == ShareCtor(s, d, src, s.px[src], ok)

\* faulty variant of DynamicPointerCast: shares without the runtime check
DynamicPointerCast_Unchecked(s, d, src, ok) ==
    ShareCtor(s, d, src, s.px[src], ok)

\* dynamic_pointer_cast<T>(ptr)
DynamicPointerCast(s, d, src, ok) ==
    LET p == DynamicCastPtr(s, src, StaticType(d))
    IN IF p # NULL THEN ShareCtor(s, d, src, p, ok) ELSE DefaultCtor(s, d)

\* ------------------------------------------------------------- unique_ptr

\* unique_ptr::acquire(p): px = p
UniqueAcquire(s, u, p) == [s EXCEPT !.upx[u] = p]

\* faulty variant of UniqueRelease: leaves px as it was
UniqueRelease_KeepPx(s, u) == [s EXCEPT !.objs = Delete(@, s.upx[u])]

\* faulty variant of UniqueRelease: forgets the pointer without delete
UniqueRelease_NoDelete(s, u) == [s EXCEPT !.upx[u] = NULL]

\* unique_ptr::release(): delete px; px = NULL
UniqueRelease(s, u) ==
    [s EXCEPT !.objs = Delete(@, s.upx[u]), !.upx[u] = NULL]

\* unique_ptr(void) throw(): px(NULL)
UniqueDefaultCtor(s, d) == [s EXCEPT !.upx[d] = NULL, !.ulive[d] = TRUE]

\* explicit unique_ptr(T* p): acquire(p)
UniquePtrCtor(s, d, p) == [UniqueAcquire(s, d, p) EXCEPT !.ulive[d] = TRUE]

\* faulty variant of UniqueCopyCtor: copies the pointer and leaves it in ptr
UniqueCopyCtor_KeepSource(s, d, src) ==
    [UniqueAcquire(s, d, s.upx[src]) EXCEPT !.ulive[d] = TRUE]

\* unique_ptr(unique_ptr& ptr) throw(): acquire(ptr.px); ptr.px = NULL
UniqueCopyCtor(s, d, src) ==
    LET s1 == UniqueAcquire(s, d, s.upx[src])
    IN [s1 EXCEPT !.upx[src] = NULL, !.ulive[d] = TRUE]

\* template <class U> unique_ptr(unique_ptr<U>& ptr) throw():
\* acquire(static_cast<T*>(ptr.px)), the same object; ptr.px = NULL
UniqueConvCtor(s, d, src) ==
    LET s1 == UniqueAcquire(s, d, s.upx[src])
    IN [s1 EXCEPT !.upx[src] = NULL, !.ulive[d] = TRUE]

\* ~unique_ptr(void) throw(): release()
UniqueDtor(s, u) == [UniqueRelease(s, u) EXCEPT !.ulive[u] = FALSE]

\* unique_ptr::reset(void) throw(): release()
UniqueResetVoid(s, u) == UniqueRelease(s, u)

\* faulty variant of UniqueResetPtr: releases before the assertion
UniqueResetPtr_ReleaseFirst(s, u, p) ==
    LET s0 == SharedAssert(UniqueRelease(s, u), p = NULL \/ s.upx[u] # p)
    IN IF Ran(s0) THEN UniqueAcquire(s0, u, p) ELSE s0

\* faulty variant of UniqueResetPtr: acquires p without release()
UniqueResetPtr_NoRelease(s, u, p) ==
    LET s0 == SharedAssert(s, p = NULL \/ s.upx[u] # p)
    IN IF Ran(s0) THEN UniqueAcquire(s0, u, p) ELSE s0

\* unique_ptr::reset(T* p) throw(): the auto-reset assertion, release(),
\* acquire(p)
UniqueResetPtr(s, u, p) ==
    LET s0 == SharedAssert(s, p = NULL \/ s.upx[u] # p)
    IN IF Ran(s0) THEN UniqueAcquire(UniqueRelease(s0, u), u, p) ELSE s0

\* faulty variant of UniqueSwap: copies the pointer of lhs without giving
\* its own
UniqueSwap_Copy(s, a, b) == [s EXCEPT !.upx[a] = s.upx[b]]

\* unique_ptr::swap(unique_ptr& lhs) throw(): std::swap(px, lhs.px)
UniqueSwap(s, a, b) ==
    [s EXCEPT !.upx[a] = s.upx[b], !.upx[b] = s.upx[a]]

\* faulty variant of UniqueAssign: takes the pointer of b over its own
\* without releasing
UniqueAssign_Leak(s, a, b) ==
    IF a = b THEN s ELSE [s EXCEPT !.upx[a] = s.upx[b], !.upx[b] = NULL]

\* unique_ptr& operator=(unique_ptr ptr) throw(): the by-value parameter ptr
\* (UTmp) is copy-constructed from b, taking its pointer (by the converting
\* constructor when b is a unique_ptr<U>); swap(ptr); ptr is destroyed at
\* the return
UniqueAssign(s, a, b) ==
    UniqueDtor(UniqueSwap(IF s.utype[a] = s.utype[b]
                          THEN UniqueCopyCtor(s, UTmp, b)
                          ELSE UniqueConvCtor(s, UTmp, b),
                          a, UTmp), UTmp)

\* faulty variant of OperatorStar: no assertion
OperatorStar_Unchecked(s, h) == s

\* T& operator*() const throw(): SHARED_ASSERT(NULL != px); return *px
OperatorStar(s, h) == SharedAssert(s, NULL # s.px[h])

\* T* operator->() const throw(): SHARED_ASSERT(NULL != px); return px
OperatorArrow(s, h) == SharedAssert(s, NULL # s.px[h])

\* T* get(void) const throw(): return px, no assertion; writes nothing
GetCall(s, h) == s

\* faulty variant of UseCountCall: counts the caller as one more owner
UseCountCall_Increment(s, h) ==
    IF s.pn[h] # NULL THEN [s EXCEPT !.cells[s.pn[h]].val = @ + 1] ELSE s

\* long use_count(void) const throw(): return pn.use_count(), which reads
\* *pn into a local; writes nothing
UseCountCall(s, h) == s

\* bool unique(void) const throw(): return (1 == pn.use_count())
UniqueCall(s, h) == s

\* operator bool() const throw(): return (0 < pn.use_count())
OperatorBoolCall(s, h) == s

\* the six comparison operators of shared_ptr: each returns the comparison
\* of l.get() with r.get(), both taken by const reference
CompareCall(s, l, r) == s

\* unique_ptr: T& operator*() const throw(): SHARED_ASSERT(NULL != px)
UniqueOperatorStar(s, u) == SharedAssert(s, NULL # s.upx[u])

\* unique_ptr: T* operator->() const throw(): SHARED_ASSERT(NULL != px)
UniqueOperatorArrow(s, u) == SharedAssert(s, NULL # s.upx[u])

\* unique_ptr: T* get(void) const throw(): return px, no assertion
UniqueGetCall(s, u) == s

\* unique_ptr: operator bool() const throw(): return (NULL != px)
UniqueOperatorBoolCall(s, u) == s

\* the six comparison operators of unique_ptr
UniqueCompareCall(s, l, r) == s

\* a call the compiler rejects: there is no program, nothing is constructed
\* and nothing changes
IllFormed(s) == [s EXCEPT !.sig = "ill_formed"]

\* static_pointer_cast<T>(const unique_ptr<U>& ptr): the returned expression
\* unique_ptr<T>(ptr, static_cast<T*>(ptr.get())) names a constructor with
\* two parameters, and class unique_ptr declares none
UniqueStaticPointerCast(s, d, src) == IllFormed(s)

\* dynamic_pointer_cast<T>(const unique_ptr<U>& ptr): the branch of a
\* non-null dynamic_cast returns unique_ptr<T>(ptr, p), the same undeclared
\* constructor, which is rejected whatever p is at run time
UniqueDynamicPointerCast(s, d, src) == IllFormed(s)

\* ------------------------------------------------------------ the actions

\* new X: the next object of the heap; its pointer is its number
New(s, t) == [s EXCEPT !.objs = Append(@, NewObj(t))]

\* the operation that ran last and its receiver dst (for a constructor, the
\* handle constructed); for a = b, src is b, cnt is b.use_count() before the
\* assignment and same is whether a and b shared their counter before it
Op(name, dst, src) ==
    [op |-> name, dst |-> dst,
     src |-> IF name = "assign" THEN src ELSE NULL,
     cnt |-> IF name = "assign" THEN CountUseCount(cells, pn[src]) ELSE 0,
     same |-> IF name = "assign" THEN pn[dst] = pn[src] ELSE FALSE]

\* the state after a handler: an assertion failure or an exception leaving a
\* throw() function ends the program
Commit(s, l, next) ==
    /\ px' = s.px
    /\ pn' = s.pn
    /\ live' = s.live
    /\ objs' = s.objs
    /\ cells' = s.cells
    /\ upx' = s.upx
    /\ ulive' = s.ulive
    /\ utype' = s.utype
    /\ sig' = s.sig
    /\ last' = l
    /\ UNCHANGED <<thr, raced, held>>
    /\ pc' = IF s.sig \in {"terminate", "assert", "ill_formed"}
             THEN "halted" ELSE next

\* the outcomes of new long(1) when acquire(p) runs on the counter pointer
\* n: the allocation is reached only for a non-null p and a null n
NewLong(p, n) == IF p # NULL /\ n = NULL THEN BOOLEAN ELSE {TRUE}

\* the vector keeps its elements in the last handles, PtrList[i] in handle
\* NumHandles + 1 - i
VecElem(i) == NumHandles + 1 - i

InVec(h) == h > NumHandles - vlen

\* the handles a declaration of a shared_ptr<T> variable can take
FreeVars(T) == {d \in Handles : ~live[d] /\ ~InVec(d) /\ StaticType(d) = T}

\* a declaration takes the first free handle of its type (which one it
\* takes names the variable, nothing more)
Var(T) == CHOOSE d \in FreeVars(T) : \A e \in FreeVars(T) : d <= e

\* the native pointer of src is a valid T*: src is empty or its object is a T
ValidAs(src, T) ==
    IF px[src] = NULL THEN TRUE ELSE Convertible(objs[px[src]].dyn, T)

\* shared_ptr<T> d;
DoDefaultCtor(T) ==
    /\ pc = "idle" /\ FreeVars(T) # {}
    /\ Commit(DefaultCtor(Cur, Var(T)), Op("default", Var(T), NULL), "idle")
    /\ UNCHANGED <<vlen, uvlen>>

\* shared_ptr<T> d((T*)NULL);
DoNullCtor(T) ==
    /\ pc = "idle" /\ FreeVars(T) # {}
    /\ \E ok \in NewLong(NULL, NULL) :
         Commit(PtrCtor(Cur, Var(T), NULL, ok), Op("ctor_null", Var(T), NULL), "idle")
    /\ UNCHANGED <<vlen, uvlen>>

\* shared_ptr<T> d(new X);
DoPtrCtor(T, X) ==
    /\ pc = "idle" /\ FreeVars(T) # {} /\ Len(objs) < MaxObj
    /\ Convertible(X, T)
    /\ \E ok \in NewLong(Len(objs) + 1, NULL) :
         Commit(PtrCtor(New(Cur, X), Var(T), Len(objs) + 1, ok),
                Op("ctor", Var(T), NULL), "idle")
    /\ UNCHANGED <<vlen, uvlen>>

\* shared_ptr<T> d(src);  with src a shared_ptr<T>
DoCopyCtor(src) ==
    /\ pc = "idle" /\ live[src] /\ FreeVars(StaticType(src)) # {}
    /\ \E ok \in NewLong(px[src], pn[src]) :
         Commit(CopyCtor(Cur, Var(StaticType(src)), src, ok),
                Op("copy", Var(StaticType(src)), src), "idle")
    /\ UNCHANGED <<vlen, uvlen>>

\* shared_ptr<T> d = src;  with src a shared_ptr<U>, U another type
DoConvCtor(T, src) ==
    /\ pc = "idle" /\ live[src] /\ FreeVars(T) # {}
    /\ StaticType(src) # T /\ ValidAs(src, T)
    /\ \E ok \in NewLong(px[src], pn[src]) :
         Commit(ConvCtor(Cur, Var(T), src, ok), Op("conv", Var(T), src), "idle")
    /\ UNCHANGED <<vlen, uvlen>>

\* end of the scope of h
DoDtor(h) ==
    /\ pc = "idle" /\ live[h] /\ ~InVec(h)
    /\ Commit(Dtor(Cur, h), Op("dtor", h, NULL), "idle")
    /\ UNCHANGED <<vlen, uvlen>>

\* h.reset();
DoReset(h) ==
    /\ pc = "idle" /\ live[h]
    /\ Commit(ResetVoid(Cur, h), Op("reset", h, NULL), "idle")
    /\ UNCHANGED <<vlen, uvlen>>

\* h.reset((T*)NULL);
DoResetNull(h) ==
    /\ pc = "idle" /\ live[h]
    /\ \E ok \in NewLong(NULL, NULL) :
         Commit(ResetPtr(Cur, h, NULL, ok), Op("reset_null", h, NULL), "idle")
    /\ UNCHANGED <<vlen, uvlen>>

\* h.reset(new X);
DoResetPtr(h, X) ==
    /\ pc = "idle" /\ live[h] /\ Len(objs) < MaxObj
    /\ Convertible(X, StaticType(h))
    /\ \E ok \in NewLong(Len(objs) + 1, NULL) :
         Commit(ResetPtr(New(Cur, X), h, Len(objs) + 1, ok),
                Op("reset_p", h, NULL), "idle")
    /\ UNCHANGED <<vlen, uvlen>>

\* a.swap(b);
DoSwap(a, b) ==
    /\ pc = "idle" /\ live[a] /\ live[b]
    /\ StaticType(a) = StaticType(b)
    /\ Commit(Swap(Cur, a, b), Op("swap", a, b), "idle")
    /\ UNCHANGED <<vlen, uvlen>>

\* a = b;  first the by-value parameter ptr is copy-constructed from b (by
\* the converting constructor when b is a shared_ptr<U>)
DoAssignCopy(a, b) ==
    /\ pc = "idle" /\ live[a] /\ live[b] /\ ValidAs(b, StaticType(a))
    /\ \E ok \in NewLong(px[b], pn[b]) :
         Commit(AssignParam(Cur, a, b, ok), Op("assign", a, b), "assign_swap")
    /\ UNCHANGED <<vlen, uvlen>>

\* a = b;  the body of operator=: swap(ptr)
DoAssignSwap ==
    /\ pc = "assign_swap"
    /\ Commit(Swap(Cur, last.dst, Tmp), last, "assign_dtor")
    /\ UNCHANGED <<vlen, uvlen>>

\* a = b;  the return of operator=: the parameter ptr is destroyed
DoAssignDtor ==
    /\ pc = "assign_dtor"
    /\ Commit(Dtor(Cur, Tmp), last, "idle")
    /\ UNCHANGED <<vlen, uvlen>>

\* shared_ptr<T> d = static_pointer_cast<T>(src);
DoStaticCast(T, src) ==
    /\ pc = "idle" /\ live[src] /\ FreeVars(T) # {} /\ ValidAs(src, T)
    /\ \E ok \in NewLong(px[src], pn[src]) :
         Commit(StaticPointerCast(Cur, Var(T), src, ok),
                Op("static_cast", Var(T), src), "idle")
    /\ UNCHANGED <<vlen, uvlen>>

\* shared_ptr<T> d = dynamic_pointer_cast<T>(src);
DoDynamicCast(T, src) ==
    /\ pc = "idle" /\ live[src] /\ FreeVars(T) # {}
    /\ \E ok \in NewLong(DynamicCastPtr(Cur, src, T), pn[src]) :
         Commit(DynamicPointerCast(Cur, Var(T), src, ok),
                Op("dynamic_cast", Var(T), src), "idle")
    /\ UNCHANGED <<vlen, uvlen>>

\* PtrList.push_back(src): the new element is copy-constructed from src
DoPushBack(src) ==
    /\ pc = "idle" /\ live[src] /\ StaticType(src) = "A"
    /\ vlen + 1 < NumHandles
    /\ ~live[VecElem(vlen + 1)] /\ StaticType(VecElem(vlen + 1)) = "A"
    /\ \E ok \in NewLong(px[src], pn[src]) :
         Commit(CopyCtor(Cur, VecElem(vlen + 1), src, ok),
                Op("push_back", VecElem(vlen + 1), src), "idle")
    /\ vlen' = vlen + 1 /\ UNCHANGED uvlen

\* PtrList.pop_back(): the last element is destroyed
DoPopBack ==
    /\ pc = "idle" /\ vlen > 0
    /\ Commit(Dtor(Cur, VecElem(vlen)), Op("pop_back", VecElem(vlen), NULL), "idle")
    /\ vlen' = vlen - 1 /\ UNCHANGED uvlen

\* shared_ptr<T> d(src, p);  a direct call of the public two-argument
\* constructor, with p the null pointer or the pointer of src
DoShareCtor(T, src, p) ==
    /\ pc = "idle" /\ live[src] /\ FreeVars(T) # {}
    /\ IF p = NULL THEN TRUE ELSE p = px[src] /\ ValidAs(src, T)
    /\ \E ok \in NewLong(p, pn[src]) :
         Commit(ShareCtor(Cur, Var(T), src, p, ok), Op("share", Var(T), src), "idle")
    /\ UNCHANGED <<vlen, uvlen>>

\* h.reset(h.get());  on a handle that holds an object
DoResetSelf(h) ==
    /\ pc = "idle" /\ live[h] /\ px[h] # NULL
    /\ \E ok \in NewLong(px[h], NULL) :
         Commit(ResetPtr(Cur, h, px[h], ok), Op("reset_self", h, NULL), "idle")
    /\ UNCHANGED <<vlen, uvlen>>

\* the vector of unique_ptr keeps its elements in the last unique_ptr
\* handles, PtrList[i] in handle NumUnique + 1 - i
UVecElem(i) == NumUnique + 1 - i

UInVec(u) == u > NumUnique - uvlen

\* the handles a declaration of a unique_ptr variable can take, and the one
\* it takes
UFreeVars == {d \in UHandles : ~ulive[d] /\ ~UInVec(d)}

UVar == CHOOSE d \in UFreeVars : \A e \in UFreeVars : d <= e

\* the declaration unique_ptr<T> d fixes the static type of the variable d;
\* a variable out of scope has none (kept as "A")
Declare(s, d, T) == [s EXCEPT !.utype[d] = T]

Undeclare(s, d) == [s EXCEPT !.utype[d] = "A"]

\* the native pointer of the unique_ptr src is a valid T*
UValidAs(src, T) ==
    IF upx[src] = NULL THEN TRUE ELSE Convertible(objs[upx[src]].dyn, T)

\* unique_ptr<T> u;
DoUniqueDefaultCtor(T) ==
    /\ pc = "idle" /\ UFreeVars # {}
    /\ Commit(UniqueDefaultCtor(Declare(Cur, UVar, T), UVar),
              Op("u_default", UVar, NULL), "idle")
    /\ UNCHANGED <<vlen, uvlen>>

\* unique_ptr<T> u((T*)NULL);
DoUniqueNullCtor(T) ==
    /\ pc = "idle" /\ UFreeVars # {}
    /\ Commit(UniquePtrCtor(Declare(Cur, UVar, T), UVar, NULL),
              Op("u_ctor_null", UVar, NULL), "idle")
    /\ UNCHANGED <<vlen, uvlen>>

\* unique_ptr<T> u(new X);
DoUniquePtrCtor(T, X) ==
    /\ pc = "idle" /\ UFreeVars # {} /\ Len(objs) < MaxObj
    /\ Convertible(X, T)
    /\ Commit(UniquePtrCtor(Declare(New(Cur, X), UVar, T), UVar, Len(objs) + 1),
              Op("u_ctor", UVar, NULL), "idle")
    /\ UNCHANGED <<vlen, uvlen>>

\* unique_ptr<T> u(src);  with src a unique_ptr<T>
DoUniqueCopyCtor(src) ==
    /\ pc = "idle" /\ ulive[src] /\ UFreeVars # {}
    /\ Commit(UniqueCopyCtor(Declare(Cur, UVar, utype[src]), UVar, src),
              Op("u_copy", UVar, src), "idle")
    /\ UNCHANGED <<vlen, uvlen>>

\* unique_ptr<T> u(src);  with src a unique_ptr<U>, U another type
DoUniqueConvCtor(T, src) ==
    /\ pc = "idle" /\ ulive[src] /\ UFreeVars # {}
    /\ utype[src] # T /\ UValidAs(src, T)
    /\ Commit(UniqueConvCtor(Declare(Cur, UVar, T), UVar, src),
              Op("u_conv", UVar, src), "idle")
    /\ UNCHANGED <<vlen, uvlen>>

\* a = b;  on unique_ptr
DoUniqueAssign(a, b) ==
    /\ pc = "idle" /\ ulive[a] /\ ulive[b] /\ UValidAs(b, utype[a])
    /\ Commit(UniqueAssign(Cur, a, b), Op("u_assign", a, b), "idle")
    /\ UNCHANGED <<vlen, uvlen>>

\* end of the scope of u
DoUniqueDtor(u) ==
    /\ pc = "idle" /\ ulive[u] /\ ~UInVec(u)
    /\ Commit(Undeclare(UniqueDtor(Cur, u), u), Op("u_dtor", u, NULL), "idle")
    /\ UNCHANGED <<vlen, uvlen>>

\* u.reset();
DoUniqueReset(u) ==
    /\ pc = "idle" /\ ulive[u]
    /\ Commit(UniqueResetVoid(Cur, u), Op("u_reset", u, NULL), "idle")
    /\ UNCHANGED <<vlen, uvlen>>

\* u.reset((T*)NULL);
DoUniqueResetNull(u) ==
    /\ pc = "idle" /\ ulive[u]
    /\ Commit(UniqueResetPtr(Cur, u, NULL), Op("u_reset_null", u, NULL), "idle")
    /\ UNCHANGED <<vlen, uvlen>>

\* u.reset(new X);
DoUniqueResetPtr(u, X) ==
    /\ pc = "idle" /\ ulive[u] /\ Len(objs) < MaxObj
    /\ Convertible(X, utype[u])
    /\ Commit(UniqueResetPtr(New(Cur, X), u, Len(objs) + 1),
              Op("u_reset_p", u, NULL), "idle")
    /\ UNCHANGED <<vlen, uvlen>>

\* u.reset(u.get());  on a unique_ptr that holds an object
DoUniqueResetSelf(u) ==
    /\ pc = "idle" /\ ulive[u] /\ upx[u] # NULL
    /\ Commit(UniqueResetPtr(Cur, u, upx[u]), Op("u_reset_self", u, NULL), "idle")
    /\ UNCHANGED <<vlen, uvlen>>

\* a.swap(b);  on unique_ptr of one type
DoUniqueSwap(a, b) ==
    /\ pc = "idle" /\ ulive[a] /\ ulive[b] /\ utype[a] = utype[b]
    /\ Commit(UniqueSwap(Cur, a, b), Op("u_swap", a, b), "idle")
    /\ UNCHANGED <<vlen, uvlen>>

\* PtrList.push_back(src): the new element is copy-constructed from src,
\* which gives its pointer away
DoUniquePushBack(src) ==
    /\ pc = "idle" /\ ulive[src] /\ utype[src] = "A"
    /\ uvlen + 1 < NumUnique
    /\ ~ulive[UVecElem(uvlen + 1)]
    /\ Commit(UniqueCopyCtor(Declare(Cur, UVecElem(uvlen + 1), "A"),
                             UVecElem(uvlen + 1), src),
              Op("u_push_back", UVecElem(uvlen + 1), src), "idle")
    /\ uvlen' = uvlen + 1 /\ UNCHANGED vlen

\* PtrList.pop_back(): the last element is destroyed
DoUniquePopBack ==
    /\ pc = "idle" /\ uvlen > 0
    /\ Commit(Undeclare(UniqueDtor(Cur, UVecElem(uvlen)), UVecElem(uvlen)),
              Op("u_pop_back", UVecElem(uvlen), NULL), "idle")
    /\ uvlen' = uvlen - 1 /\ UNCHANGED vlen

\* unique_ptr<T> d = static_pointer_cast<T>(src);
DoUniqueStaticCast(T, src) ==
    /\ pc = "idle" /\ ulive[src] /\ UFreeVars # {} /\ UValidAs(src, T)
    /\ Commit(UniqueStaticPointerCast(Cur, UVar, src),
              Op("u_static_cast", UVar, src), "idle")
    /\ UNCHANGED <<vlen, uvlen>>

\* unique_ptr<T> d = dynamic_pointer_cast<T>(src);
DoUniqueDynamicCast(T, src) ==
    /\ pc = "idle" /\ ulive[src] /\ UFreeVars # {}
    /\ Commit(UniqueDynamicPointerCast(Cur, UVar, src),
              Op("u_dynamic_cast", UVar, src), "idle")
    /\ UNCHANGED <<vlen, uvlen>>

\* *h;
DoOperatorStar(h) ==
    /\ pc = "idle" /\ live[h]
    /\ Commit(OperatorStar(Cur, h), Op("star", h, NULL), "idle")
    /\ UNCHANGED <<vlen, uvlen>>

\* h->member;
DoOperatorArrow(h) ==
    /\ pc = "idle" /\ live[h]
    /\ Commit(OperatorArrow(Cur, h), Op("arrow", h, NULL), "idle")
    /\ UNCHANGED <<vlen, uvlen>>

\* h.get();
DoGet(h) ==
    /\ pc = "idle" /\ live[h]
    /\ Commit(GetCall(Cur, h), Op("get", h, NULL), "idle")
    /\ UNCHANGED <<vlen, uvlen>>

\* h.use_count();
DoUseCount(h) ==
    /\ pc = "idle" /\ live[h]
    /\ Commit(UseCountCall(Cur, h), Op("use_count", h, NULL), "idle")
    /\ UNCHANGED <<vlen, uvlen>>

\* h.unique();
DoUnique(h) ==
    /\ pc = "idle" /\ live[h]
    /\ Commit(UniqueCall(Cur, h), Op("unique", h, NULL), "idle")
    /\ UNCHANGED <<vlen, uvlen>>

\* if (h) ...
DoOperatorBool(h) ==
    /\ pc = "idle" /\ live[h]
    /\ Commit(OperatorBoolCall(Cur, h), Op("bool", h, NULL), "idle")
    /\ UNCHANGED <<vlen, uvlen>>

\* l == r, l != r, l <= r, l < r, l >= r, l > r
DoCompare(l, r) ==
    /\ pc = "idle" /\ live[l] /\ live[r]
    /\ Commit(CompareCall(Cur, l, r), Op("compare", l, r), "idle")
    /\ UNCHANGED <<vlen, uvlen>>

\* *u;  on unique_ptr
DoUniqueOperatorStar(u) ==
    /\ pc = "idle" /\ ulive[u]
    /\ Commit(UniqueOperatorStar(Cur, u), Op("u_star", u, NULL), "idle")
    /\ UNCHANGED <<vlen, uvlen>>

\* u->member;  on unique_ptr
DoUniqueOperatorArrow(u) ==
    /\ pc = "idle" /\ ulive[u]
    /\ Commit(UniqueOperatorArrow(Cur, u), Op("u_arrow", u, NULL), "idle")
    /\ UNCHANGED <<vlen, uvlen>>

\* u.get();  on unique_ptr
DoUniqueGet(u) ==
    /\ pc = "idle" /\ ulive[u]
    /\ Commit(UniqueGetCall(Cur, u), Op("u_get", u, NULL), "idle")
    /\ UNCHANGED <<vlen, uvlen>>

\* if (u) ...  on unique_ptr
DoUniqueOperatorBool(u) ==
    /\ pc = "idle" /\ ulive[u]
    /\ Commit(UniqueOperatorBoolCall(Cur, u), Op("u_bool", u, NULL), "idle")
    /\ UNCHANGED <<vlen, uvlen>>

\* the comparisons of two unique_ptr
DoUniqueCompare(l, r) ==
    /\ pc = "idle" /\ ulive[l] /\ ulive[r]
    /\ Commit(UniqueCompareCall(Cur, l, r), Op("u_compare", l, r), "idle")
    /\ UNCHANGED <<vlen, uvlen>>

\* ---------------------------------------------- two threads, no lock
\*
\* shared_ptr_count::acquire and release read and write *pn with plain
\* loads and stores.  Each thread runs one copy constructor or destructor at
\* a time, on a handle no other thread touches; the statements of the two
\* threads interleave.

\* what freed memory can hold when it is read
Garbage == 0..NumHandles

\* a load of *n: the value of the cell, or whatever its freed memory holds
ReadCell(n) == IF cells[n].alive THEN {cells[n].val} ELSE Garbage

\* a store of v to *n: a store to freed memory is seen by nobody
WriteCell(cs, n, v) == IF cs[n].alive THEN [cs EXCEPT ![n].val = v] ELSE cs

\* faulty variant of ZeroTest: release deletes whatever the count
ZeroTest_Always(v) == TRUE

\* if (0 == *pn) of shared_ptr_count::release
ZeroTest(v) == v = 0

\* no thread is inside a constructor or destructor
ThreadsIdle == \A t \in Threads : thr[t].pc = "idle"

\* a thread is working on handle h (constructing, destroying or copying it)
Claimed(h) ==
    \E t \in Threads : thr[t].pc # "idle" /\ (thr[t].h = h \/ thr[t].src = h)

\* another thread than t is inside acquire or release of the counter n
Racing(t, n) ==
    \E u \in Threads \ {t} : thr[u].pc # "idle" /\ pn[thr[u].h] = n

\* the handles a thread can construct as a copy of src
CopyTargets(src) ==
    {d \in Handles : ~live[d] /\ ~Claimed(d) /\ ValidAs(src, StaticType(d))}

\* the variable the copy declares: the first free one
CopyTarget(src) ==
    CHOOSE d \in CopyTargets(src) : \A e \in CopyTargets(src) : d <= e

ThreadOp(name, h) ==
    [op |-> name, dst |-> h, src |-> NULL, cnt |-> 0, same |-> FALSE]

\* what the steps of a thread leave alone
ThreadFrame == UNCHANGED <<vlen, upx, ulive, utype, uvlen, held>>

\* the main thread, while no other thread runs: shared_ptr<T> d(new X);
DoThreadsPtrCtor(T, X) == ThreadsIdle /\ DoPtrCtor(T, X)

\* the counter of h has not been freed (the run is followed up to the first
\* operation that would start on a freed counter)
CounterThere(h) == IF pn[h] = NULL THEN TRUE ELSE cells[pn[h]].alive

\* thread t enters ~shared_ptr of h: release(), pn.release(px),
\* if (NULL != pn)
ThreadDtor(t, h) ==
    /\ pc = "idle" /\ thr[t].pc = "idle" /\ live[h] /\ ~Claimed(h)
    /\ CounterThere(h)
    /\ thr' = [thr EXCEPT ![t] = [pc |-> IF pn[h] # NULL THEN "rel_load"
                                         ELSE "rel_end",
                                  h |-> h, src |-> NULL, reg |-> 0]]
    /\ raced' = IF pn[h] # NULL THEN raced \/ Racing(t, pn[h]) ELSE raced
    /\ last' = ThreadOp("t_dtor", h)
    /\ UNCHANGED <<px, pn, live, objs, cells, sig, pc>>
    /\ ThreadFrame

\* --(*pn), the load
RelLoad(t) ==
    /\ pc = "idle" /\ thr[t].pc = "rel_load"
    /\ \E v \in ReadCell(pn[thr[t].h]) :
          thr' = [thr EXCEPT ![t].reg = v, ![t].pc = "rel_store"]
    /\ UNCHANGED <<px, pn, live, objs, cells, sig, pc, last, raced>>
    /\ ThreadFrame

\* --(*pn), the store
RelStore(t) ==
    /\ pc = "idle" /\ thr[t].pc = "rel_store"
    /\ cells' = WriteCell(cells, pn[thr[t].h], thr[t].reg - 1)
    /\ thr' = [thr EXCEPT ![t].pc = "rel_test"]
    /\ UNCHANGED <<px, pn, live, objs, sig, pc, last, raced>>
    /\ ThreadFrame

\* if (0 == *pn)
RelTest(t) ==
    /\ pc = "idle" /\ thr[t].pc = "rel_test"
    /\ \E v \in ReadCell(pn[thr[t].h]) :
          thr' = [thr EXCEPT ![t].pc = IF ZeroTest(v) THEN "rel_delete_p"
                                       ELSE "rel_end"]
    /\ UNCHANGED <<px, pn, live, objs, cells, sig, pc, last, raced>>
    /\ ThreadFrame

\* delete p; a second delete of one object either goes unnoticed or is
\* caught by the allocator, which ends the program
RelDeleteP(t) ==
    /\ pc = "idle" /\ thr[t].pc = "rel_delete_p"
    /\ objs' = Delete(objs, px[thr[t].h])
    /\ thr' = [thr EXCEPT ![t].pc = "rel_delete_pn"]
    /\ \E caught \in (IF objs[px[thr[t].h]].alive THEN {FALSE} ELSE BOOLEAN) :
          /\ sig' = IF caught THEN "abort" ELSE sig
          /\ pc' = IF caught THEN "halted" ELSE pc
    /\ UNCHANGED <<px, pn, live, cells, last, raced>>
    /\ ThreadFrame

\* delete pn; a second delete of the counter likewise
RelDeletePn(t) ==
    /\ pc = "idle" /\ thr[t].pc = "rel_delete_pn"
    /\ cells' = [cells EXCEPT ![pn[thr[t].h]].alive = FALSE]
    /\ thr' = [thr EXCEPT ![t].pc = "rel_end"]
    /\ \E caught \in (IF cells[pn[thr[t].h]].alive THEN {FALSE} ELSE BOOLEAN) :
          /\ sig' = IF caught THEN "abort" ELSE sig
          /\ pc' = IF caught THEN "halted" ELSE pc
    /\ UNCHANGED <<px, pn, live, objs, last, raced>>
    /\ ThreadFrame

\* pn = NULL; px = NULL; and the handle is gone
RelEnd(t) ==
    /\ pc = "idle" /\ thr[t].pc = "rel_end"
    /\ pn' = [pn EXCEPT ![thr[t].h] = NULL]
    /\ px' = [px EXCEPT ![thr[t].h] = NULL]
    /\ live' = [live EXCEPT ![thr[t].h] = FALSE]
    /\ thr' = [thr EXCEPT ![t] = IdleThread]
    /\ UNCHANGED <<objs, cells, sig, pc, last, raced>>
    /\ ThreadFrame

\* thread t enters the copy (or converting) constructor of a new handle
\* from the owning handle src: pn(ptr.pn)
ThreadCopy(t, src) ==
    /\ pc = "idle" /\ thr[t].pc = "idle" /\ live[src] /\ ~Claimed(src)
    /\ px[src] # NULL /\ pn[src] # NULL /\ CounterThere(src)
    /\ cells[pn[src]].val <= NumHandles
    /\ CopyTargets(src) # {}
    /\ pn' = [pn EXCEPT ![CopyTarget(src)] = pn[src]]
    /\ thr' = [thr EXCEPT ![t] = [pc |-> "cp_assert", h |-> CopyTarget(src),
                                  src |-> src, reg |-> 0]]
    /\ raced' = (raced \/ Racing(t, pn[src]))
    /\ last' = ThreadOp("t_copy", CopyTarget(src))
    /\ UNCHANGED <<px, live, objs, cells, sig, pc>>
    /\ ThreadFrame

\* SHARED_ASSERT((NULL == ptr.px) || (0 != ptr.pn.use_count()))
CpAssert(t) ==
    /\ pc = "idle" /\ thr[t].pc = "cp_assert"
    /\ \E v \in ReadCell(pn[thr[t].h]) :
          IF v = 0
          THEN /\ sig' = "assert" /\ pc' = "halted"
               /\ UNCHANGED thr
          ELSE /\ thr' = [thr EXCEPT ![t].pc = "cp_load"]
               /\ UNCHANGED <<sig, pc>>
    /\ UNCHANGED <<px, pn, live, objs, cells, last, raced>>
    /\ ThreadFrame

\* acquire(ptr.px): ++(*pn), the load
CpLoad(t) ==
    /\ pc = "idle" /\ thr[t].pc = "cp_load"
    /\ \E v \in ReadCell(pn[thr[t].h]) :
          thr' = [thr EXCEPT ![t].reg = v, ![t].pc = "cp_store"]
    /\ UNCHANGED <<px, pn, live, objs, cells, sig, pc, last, raced>>
    /\ ThreadFrame

\* ++(*pn), the store; then px = p, and the handle is constructed
CpStore(t) ==
    /\ pc = "idle" /\ thr[t].pc = "cp_store"
    /\ cells' = WriteCell(cells, pn[thr[t].h], thr[t].reg + 1)
    /\ px' = [px EXCEPT ![thr[t].h] = px[thr[t].src]]
    /\ live' = [live EXCEPT ![thr[t].h] = TRUE]
    /\ thr' = [thr EXCEPT ![t] = IdleThread]
    /\ UNCHANGED <<pn, objs, sig, pc, last, raced>>
    /\ ThreadFrame

\* ------------------------------ the older revision, src/shared_ptr.hpp
\*
\* One class, px and pn as plain members, no assertion.  Its handles are
\* modelled on the same heap; held[h] records that h was given a share
\* (by a constructor, an assignment or reset(p)) and has not been reset
\* or destroyed since.

\* acquire(): counts px in the counter pn has, or allocates one
OldAcquire(s, h, ok) ==
    IF s.px[h] # NULL
    THEN IF s.pn[h] = NULL
         THEN IF ok
              THEN [s EXCEPT !.cells = Append(@, [val |-> 1, alive |-> TRUE]),
                             !.pn[h] = Len(s.cells) + 1]
              ELSE [s EXCEPT !.objs = Delete(@, s.px[h]), !.sig = "bad_alloc"]
         ELSE [s EXCEPT !.cells[s.pn[h]].val = @ + 1]
    ELSE s

\* release(): px and pn are set to NULL only when the count reached 0
OldRelease(s, h) ==
    IF s.pn[h] # NULL
    THEN LET n  == s.pn[h]
             s1 == [s EXCEPT !.cells[n].val = @ - 1]
         IN IF s1.cells[n].val = 0
            THEN [s1 EXCEPT !.objs = Delete(@, s.px[h]), !.px[h] = NULL,
                            !.cells[n].alive = FALSE, !.pn[h] = NULL]
            ELSE s1
    ELSE s

\* shared_ptr(void)
OldDefaultCtor(s, d) ==
    [s EXCEPT !.px[d] = NULL, !.pn[d] = NULL, !.live[d] = TRUE]

\* explicit shared_ptr(T* p): px(p), pn(NULL), acquire()
OldPtrCtor(s, d, p, ok) ==
    LET s1 == OldAcquire([s EXCEPT !.px[d] = p, !.pn[d] = NULL], d, ok)
    IN IF Ran(s1) THEN [s1 EXCEPT !.live[d] = TRUE]
       ELSE [s1 EXCEPT !.px[d] = NULL]

\* shared_ptr(const shared_ptr& ptr): px(ptr.px), pn(ptr.pn), acquire()
OldCopyCtor(s, d, src, ok) ==
    LET s1 == OldAcquire([s EXCEPT !.px[d] = s.px[src], !.pn[d] = s.pn[src]],
                         d, ok)
    IN IF Ran(s1) THEN [s1 EXCEPT !.live[d] = TRUE]
       ELSE [s1 EXCEPT !.px[d] = NULL, !.pn[d] = NULL]

\* ~shared_ptr(void): release()
OldDtor(s, h) == [OldRelease(s, h) EXCEPT !.live[h] = FALSE]

\* reset(void): release()
OldReset(s, h) == OldRelease(s, h)

\* reset(T* p) throw(): release(); px = p; acquire()
OldResetPtr(s, h, p, ok) ==
    NoThrow(OldAcquire([OldRelease(s, h) EXCEPT !.px[h] = p], h, ok))

\* swap(shared_ptr& lhs)
OldSwap(s, a, b) ==
    [s EXCEPT !.px[a] = s.px[b], !.px[b] = s.px[a],
              !.pn[a] = s.pn[b], !.pn[b] = s.pn[a]]

\* operator=(shared_ptr ptr): the parameter is copy-constructed from b,
\* swapped with the receiver and destroyed on return
OldAssign(s, a, b, ok) ==
    LET s1 == OldCopyCtor(s, Tmp, b, ok)
    IN IF Ran(s1) THEN OldDtor(OldSwap(s1, a, Tmp), Tmp) ELSE s1

\* the counter of h has not been freed (the run is followed up to the first
\* operation that would read a freed counter)
OldUsable(h) == IF pn[h] = NULL THEN TRUE ELSE cells[pn[h]].alive

\* the variable a declaration takes: the first free one
OldFree == {d \in Handles : ~live[d]}

OldVar == CHOOSE d \in OldFree : \A e \in OldFree : d <= e

OldOp(name, h) ==
    [op |-> name, dst |-> h, src |-> NULL, cnt |-> 0, same |-> FALSE]

\* the state after a member function of the older revision; hd is who
\* holds a share afterwards
OldCommit(s, l, hd) ==
    /\ px' = s.px
    /\ pn' = s.pn
    /\ live' = s.live
    /\ objs' = s.objs
    /\ cells' = s.cells
    /\ sig' = s.sig
    /\ last' = l
    /\ held' = hd
    /\ pc' = IF s.sig = "terminate" THEN "halted" ELSE "idle"
    /\ UNCHANGED <<vlen, upx, ulive, utype, uvlen, thr, raced>>

\* shared_ptr<Xxx> d;
DoOldDefaultCtor ==
    /\ pc = "idle" /\ OldFree # {}
    /\ OldCommit(OldDefaultCtor(Cur, OldVar), OldOp("o_default", OldVar),
                 [held EXCEPT ![OldVar] = FALSE])

\* shared_ptr<Xxx> d(new Xxx);
DoOldPtrCtor ==
    /\ pc = "idle" /\ OldFree # {} /\ Len(objs) < MaxObj
    /\ \E ok \in BOOLEAN :
         OldCommit(OldPtrCtor(New(Cur, "A"), OldVar, Len(objs) + 1, ok),
                   OldOp("o_ctor", OldVar), [held EXCEPT ![OldVar] = ok])

\* shared_ptr<Xxx> d(src);
DoOldCopyCtor(src) ==
    /\ pc = "idle" /\ live[src] /\ OldUsable(src) /\ OldFree # {}
    /\ \E ok \in NewLong(px[src], pn[src]) :
         OldCommit(OldCopyCtor(Cur, OldVar, src, ok), OldOp("o_copy", OldVar),
                   [held EXCEPT ![OldVar] = ok /\ px[src] # NULL])

\* a = b;
DoOldAssign(a, b) ==
    /\ pc = "idle" /\ live[a] /\ live[b] /\ OldUsable(a) /\ OldUsable(b)
    /\ \E ok \in NewLong(px[b], pn[b]) :
         OldCommit(OldAssign(Cur, a, b, ok), OldOp("o_assign", a),
                   [held EXCEPT ![a] = IF ok THEN px[b] # NULL ELSE @])

\* end of the scope of h
DoOldDtor(h) ==
    /\ pc = "idle" /\ live[h] /\ OldUsable(h)
    /\ OldCommit(OldDtor(Cur, h), OldOp("o_dtor", h),
                 [held EXCEPT ![h] = FALSE])

\* h.reset();
DoOldReset(h) ==
    /\ pc = "idle" /\ live[h] /\ OldUsable(h)
    /\ OldCommit(OldReset(Cur, h), OldOp("o_reset", h),
                 [held EXCEPT ![h] = FALSE])

\* h.reset(new Xxx);
DoOldResetPtr(h) ==
    /\ pc = "idle" /\ live[h] /\ OldUsable(h) /\ Len(objs) < MaxObj
    /\ \E ok \in NewLong(Len(objs) + 1, OldRelease(Cur, h).pn[h]) :
         OldCommit(OldResetPtr(New(Cur, "A"), h, Len(objs) + 1, ok),
                   OldOp("o_reset_ptr", h), [held EXCEPT ![h] = ok])

\* ------------------------- a raw pointer handed to a second handle

\* shared_ptr<T> d(g.get());  the constructor from a pointer, given the
\* pointer another handle manages
DoPtrCtorAdopt(T, g) ==
    /\ pc = "idle" /\ live[g] /\ px[g] # NULL /\ FreeVars(T) # {}
    /\ Convertible(StaticType(g), T)
    /\ \E ok \in NewLong(px[g], NULL) :
         Commit(PtrCtor(Cur, Var(T), px[g], ok), Op("adopt", Var(T), g), "idle")
    /\ UNCHANGED <<vlen, uvlen>>

\* h.reset(g.get());  with g another handle
DoResetAdopt(h, g) ==
    /\ pc = "idle" /\ live[h] /\ live[g] /\ h # g /\ px[g] # NULL
    /\ Convertible(StaticType(g), StaticType(h))
    /\ \E ok \in NewLong(px[g], NULL) :
         Commit(ResetPtr(Cur, h, px[g], ok), Op("reset_adopt", h, g), "idle")
    /\ UNCHANGED <<vlen, uvlen>>

\* unique_ptr<T> u(v.get());
DoUniquePtrCtorAdopt(T, v) ==
    /\ pc = "idle" /\ ulive[v] /\ upx[v] # NULL /\ UFreeVars # {}
    /\ Convertible(utype[v], T)
    /\ Commit(UniquePtrCtor(Declare(Cur, UVar, T), UVar, upx[v]),
              Op("u_adopt", UVar, v), "idle")
    /\ UNCHANGED <<vlen, uvlen>>

\* u.reset(v.get());  with v another unique_ptr
DoUniqueResetAdopt(u, v) ==
    /\ pc = "idle" /\ ulive[u] /\ ulive[v] /\ u # v /\ upx[v] # NULL
    /\ Convertible(utype[v], utype[u])
    /\ Commit(UniqueResetPtr(Cur, u, upx[v]), Op("u_reset_adopt", u, v), "idle")
    /\ UNCHANGED <<vlen, uvlen>>

Init ==
    /\ px = [h \in Slots |-> NULL]
    /\ pn = [h \in Slots |-> NULL]
    /\ live = [h \in Slots |-> FALSE]
    /\ objs = <<>>
    /\ cells = <<>>
    /\ vlen = 0
    /\ pc = "idle"
    /\ sig = "none"
    /\ last = [op |-> "init", dst |-> NULL, src |-> NULL, cnt |-> 0, same |-> FALSE]
    /\ upx = [u \in USlots |-> NULL]
    /\ ulive = [u \in USlots |-> FALSE]
    /\ utype = [u \in USlots |-> "A"]
    /\ uvlen = 0
    /\ thr = [t \in Threads |-> IdleThread]
    /\ raced = FALSE
    /\ held = [h \in Slots |-> FALSE]

\* the operations of shared_ptr on the program's variables
Next ==
    \/ \E T \in Types : DoDefaultCtor(T)
    \/ \E T \in Types : DoNullCtor(T)
    \/ \E T, X \in Types : DoPtrCtor(T, X)
    \/ \E src \in Handles : DoCopyCtor(src)
    \/ \E T \in Types, src \in Handles : DoConvCtor(T, src)
    \/ \E h \in Handles : DoDtor(h)
    \/ \E h \in Handles : DoReset(h)
    \/ \E h \in Handles : DoResetNull(h)
    \/ \E h \in Handles, X \in Types : DoResetPtr(h, X)
    \/ \E a, b \in Handles : DoSwap(a, b)
    \/ \E a, b \in Handles : DoAssignCopy(a, b)
    \/ DoAssignSwap
    \/ DoAssignDtor
    \/ \E T \in Types, src \in Handles : DoStaticCast(T, src)
    \/ \E T \in Types, src \in Handles : DoDynamicCast(T, src)

Spec == Init /\ [][Next]_vars

\* the same program with handles also stored in and removed from the vector
NextVec ==
    \/ Next
    \/ \E src \in Handles : DoPushBack(src)
    \/ DoPopBack

SpecVec == Init /\ [][NextVec]_vars

\* the operations of unique_ptr on the program's variables
NextUnique ==
    \/ \E T \in Types : DoUniqueDefaultCtor(T)
    \/ \E T \in Types : DoUniqueNullCtor(T)
    \/ \E T, X \in Types : DoUniquePtrCtor(T, X)
    \/ \E src \in UHandles : DoUniqueCopyCtor(src)
    \/ \E T \in Types, src \in UHandles : DoUniqueConvCtor(T, src)
    \/ \E a, b \in UHandles : DoUniqueAssign(a, b)
    \/ \E u \in UHandles : DoUniqueDtor(u)
    \/ \E u \in UHandles : DoUniqueReset(u)
    \/ \E u \in UHandles : DoUniqueResetNull(u)
    \/ \E u \in UHandles, X \in Types : DoUniqueResetPtr(u, X)
    \/ \E a, b \in UHandles : DoUniqueSwap(a, b)

\* a program of unique_ptr variables and a vector of unique_ptr
NextUniqueVec ==
    \/ NextUnique
    \/ \E src \in UHandles : DoUniquePushBack(src)
    \/ DoUniquePopBack

SpecUnique == Init /\ [][NextUniqueVec]_vars

\* a program of unique_ptr variables that also calls the cast helpers of
\* unique_ptr.hpp
NextUniqueCast ==
    \/ NextUnique
    \/ \E T \in Types, src \in UHandles : DoUniqueStaticCast(T, src)
    \/ \E T \in Types, src \in UHandles : DoUniqueDynamicCast(T, src)

SpecUniqueCast == Init /\ [][NextUniqueCast]_vars

\* no unique_ptr, respectively no shared_ptr, is in scope
NoUniqueInScope == \A u \in USlots : ~ulive[u]

NoSharedInScope == \A h \in Slots : ~live[h]

\* a program that uses the two classes one after the other: the operations
\* of one class run while no handle of the other class is in scope
NextEither ==
    \/ NoUniqueInScope /\ \E T \in Types : DoDefaultCtor(T)
    \/ NoUniqueInScope /\ \E T \in Types : DoNullCtor(T)
    \/ NoUniqueInScope /\ \E T, X \in Types : DoPtrCtor(T, X)
    \/ NoUniqueInScope /\ \E src \in Handles : DoCopyCtor(src)
    \/ NoUniqueInScope /\ \E T \in Types, src \in Handles : DoConvCtor(T, src)
    \/ NoUniqueInScope /\ \E h \in Handles : DoDtor(h)
    \/ NoUniqueInScope /\ \E h \in Handles : DoReset(h)
    \/ NoUniqueInScope /\ \E h \in Handles : DoResetNull(h)
    \/ NoUniqueInScope /\ \E h \in Handles, X \in Types : DoResetPtr(h, X)
    \/ NoUniqueInScope /\ \E a, b \in Handles : DoSwap(a, b)
    \/ NoUniqueInScope /\ \E a, b \in Handles : DoAssignCopy(a, b)
    \/ NoUniqueInScope /\ DoAssignSwap
    \/ NoUniqueInScope /\ DoAssignDtor
    \/ NoUniqueInScope /\ \E T \in Types, src \in Handles : DoStaticCast(T, src)
    \/ NoUniqueInScope /\ \E T \in Types, src \in Handles : DoDynamicCast(T, src)
    \/ NoSharedInScope /\ \E T \in Types : DoUniqueDefaultCtor(T)
    \/ NoSharedInScope /\ \E T \in Types : DoUniqueNullCtor(T)
    \/ NoSharedInScope /\ \E T, X \in Types : DoUniquePtrCtor(T, X)
    \/ NoSharedInScope /\ \E src \in UHandles : DoUniqueCopyCtor(src)
    \/ NoSharedInScope /\ \E T \in Types, src \in UHandles : DoUniqueConvCtor(T, src)
    \/ NoSharedInScope /\ \E a, b \in UHandles : DoUniqueAssign(a, b)
    \/ NoSharedInScope /\ \E u \in UHandles : DoUniqueDtor(u)
    \/ NoSharedInScope /\ \E u \in UHandles : DoUniqueReset(u)
    \/ NoSharedInScope /\ \E u \in UHandles : DoUniqueResetNull(u)
    \/ NoSharedInScope /\ \E u \in UHandles, X \in Types : DoUniqueResetPtr(u, X)
    \/ NoSharedInScope /\ \E a, b \in UHandles : DoUniqueSwap(a, b)

SpecEither == Init /\ [][NextEither]_vars

\* the same program, which between its operations also dereferences and
\* observes its handles
NextObserve ==
    \/ NextEither
    \/ \E h \in Handles : DoOperatorStar(h)
    \/ \E h \in Handles : DoOperatorArrow(h)
    \/ \E h \in Handles : DoGet(h)
    \/ \E h \in Handles : DoUseCount(h)
    \/ \E h \in Handles : DoUnique(h)
    \/ \E h \in Handles : DoOperatorBool(h)
    \/ \E l, r \in Handles : DoCompare(l, r)
    \/ \E u \in UHandles : DoUniqueOperatorStar(u)
    \/ \E u \in UHandles : DoUniqueOperatorArrow(u)
    \/ \E u \in UHandles : DoUniqueGet(u)
    \/ \E u \in UHandles : DoUniqueOperatorBool(u)
    \/ \E l, r \in UHandles : DoUniqueCompare(l, r)

SpecObserve == Init /\ [][NextObserve]_vars

\* a program that uses both classes, and that may also reset a handle with
\* the pointer the handle holds
NextBoth ==
    \/ Next
    \/ NextUnique
    \/ \E h \in Handles : DoResetSelf(h)
    \/ \E u \in UHandles : DoUniqueResetSelf(u)

SpecBoth == Init /\ [][NextBoth]_vars

\* no live handle holds a counter that has been deleted
NoDangling ==
    \A h \in Slots :
        IF live[h] /\ pn[h] # NULL THEN cells[pn[h]].alive ELSE TRUE

\* a program that also calls the two-argument constructor itself; it is
\* followed until a handle is left with a deleted counter, every use of
\* which reads freed memory
NextShare ==
    \/ NoDangling /\ \E T \in Types : DoDefaultCtor(T)
    \/ NoDangling /\ \E T \in Types : DoNullCtor(T)
    \/ NoDangling /\ \E T, X \in Types : DoPtrCtor(T, X)
    \/ NoDangling /\ \E src \in Handles : DoCopyCtor(src)
    \/ NoDangling /\ \E T \in Types, src \in Handles : DoConvCtor(T, src)
    \/ NoDangling /\ \E h \in Handles : DoDtor(h)
    \/ NoDangling /\ \E h \in Handles : DoReset(h)
    \/ NoDangling /\ \E h \in Handles : DoResetNull(h)
    \/ NoDangling /\ \E h \in Handles, X \in Types : DoResetPtr(h, X)
    \/ NoDangling /\ \E a, b \in Handles : DoSwap(a, b)
    \/ NoDangling /\ \E a, b \in Handles : DoAssignCopy(a, b)
    \/ NoDangling /\ DoAssignSwap
    \/ NoDangling /\ DoAssignDtor
    \/ NoDangling /\ \E T \in Types, src \in Handles : DoStaticCast(T, src)
    \/ NoDangling /\ \E T \in Types, src \in Handles : DoDynamicCast(T, src)
    \/ NoDangling /\ \E T \in Types, src \in Handles, p \in 0..MaxObj :
                        DoShareCtor(T, src, p)

SpecShare == Init /\ [][NextShare]_vars

\* handles of one lineage used by two threads without a lock
NextThreads ==
    \/ \E T, X \in Types : DoThreadsPtrCtor(T, X)
    \/ \E t \in Threads, h \in Handles : ThreadDtor(t, h)
    \/ \E t \in Threads : RelLoad(t)
    \/ \E t \in Threads : RelStore(t)
    \/ \E t \in Threads : RelTest(t)
    \/ \E t \in Threads : RelDeleteP(t)
    \/ \E t \in Threads : RelDeletePn(t)
    \/ \E t \in Threads : RelEnd(t)
    \/ \E t \in Threads, src \in Handles : ThreadCopy(t, src)
    \/ \E t \in Threads : CpAssert(t)
    \/ \E t \in Threads : CpLoad(t)
    \/ \E t \in Threads : CpStore(t)

SpecThreads == Init /\ [][NextThreads]_vars

\* the operations of the older revision on the program's variables
NextOld ==
    \/ DoOldDefaultCtor
    \/ DoOldPtrCtor
    \/ \E src \in Handles : DoOldCopyCtor(src)
    \/ \E a, b \in Handles : DoOldAssign(a, b)
    \/ \E h \in Handles : DoOldDtor(h)
    \/ \E h \in Handles : DoOldReset(h)
    \/ \E h \in Handles : DoOldResetPtr(h)

SpecOld == Init /\ [][NextOld]_vars

\* no handle in scope points to an object that has been deleted
NoDeadReferent ==
    /\ \A h \in Slots :
          IF live[h] /\ px[h] # NULL THEN objs[px[h]].alive ELSE TRUE
    /\ \A u \in USlots :
          IF ulive[u] /\ upx[u] # NULL THEN objs[upx[u]].alive ELSE TRUE

\* the operations of shared_ptr, respectively of unique_ptr, can run
SharedTurn == NoUniqueInScope /\ NoDeadReferent

UniqueTurn == NoSharedInScope /\ NoDeadReferent

\* a program that uses the two classes one after the other and that may hand
\* the pointer one handle manages to a second handle; it is followed until a
\* handle is left with a deleted object
NextAdopt ==
    \/ SharedTurn /\ \E T \in Types : DoDefaultCtor(T)
    \/ SharedTurn /\ \E T \in Types : DoNullCtor(T)
    \/ SharedTurn /\ \E T, X \in Types : DoPtrCtor(T, X)
    \/ SharedTurn /\ \E src \in Handles : DoCopyCtor(src)
    \/ SharedTurn /\ \E T \in Types, src \in Handles : DoConvCtor(T, src)
    \/ SharedTurn /\ \E h \in Handles : DoDtor(h)
    \/ SharedTurn /\ \E h \in Handles : DoReset(h)
    \/ SharedTurn /\ \E h \in Handles : DoResetNull(h)
    \/ SharedTurn /\ \E h \in Handles, X \in Types : DoResetPtr(h, X)
    \/ SharedTurn /\ \E a, b \in Handles : DoSwap(a, b)
    \/ SharedTurn /\ \E a, b \in Handles : DoAssignCopy(a, b)
    \/ SharedTurn /\ DoAssignSwap
    \/ SharedTurn /\ DoAssignDtor
    \/ SharedTurn /\ \E T \in Types, src \in Handles : DoStaticCast(T, src)
    \/ SharedTurn /\ \E T \in Types, src \in Handles : DoDynamicCast(T, src)
    \/ SharedTurn /\ \E T \in Types, g \in Handles : DoPtrCtorAdopt(T, g)
    \/ SharedTurn /\ \E h, g \in Handles : DoResetAdopt(h, g)
    \/ UniqueTurn /\ \E T \in Types : DoUniqueDefaultCtor(T)
    \/ UniqueTurn /\ \E T \in Types : DoUniqueNullCtor(T)
    \/ UniqueTurn /\ \E T, X \in Types : DoUniquePtrCtor(T, X)
    \/ UniqueTurn /\ \E src \in UHandles : DoUniqueCopyCtor(src)
    \/ UniqueTurn /\ \E T \in Types, src \in UHandles : DoUniqueConvCtor(T, src)
    \/ UniqueTurn /\ \E a, b \in UHandles : DoUniqueAssign(a, b)
    \/ UniqueTurn /\ \E u \in UHandles : DoUniqueDtor(u)
    \/ UniqueTurn /\ \E u \in UHandles : DoUniqueReset(u)
    \/ UniqueTurn /\ \E u \in UHandles : DoUniqueResetNull(u)
    \/ UniqueTurn /\ \E u \in UHandles, X \in Types : DoUniqueResetPtr(u, X)
    \/ UniqueTurn /\ \E a, b \in UHandles : DoUniqueSwap(a, b)
    \/ UniqueTurn /\ \E T \in Types, v \in UHandles : DoUniquePtrCtorAdopt(T, v)
    \/ UniqueTurn /\ \E u, v \in UHandles : DoUniqueResetAdopt(u, v)

SpecAdopt == Init /\ [][NextAdopt]_vars

\* ------------------------------------------------------------- observers

\* shared_ptr::use_count()
UseCount(h) == CountUseCount(cells, pn[h])

\* shared_ptr::operator bool()
OperatorBool(h) == 0 < UseCount(h)

\* shared_ptr::unique()
Unique(h) == 1 = UseCount(h)

\* shared_ptr::get()
Get(h) == px[h]

\* unique_ptr::operator bool()
UniqueOperatorBool(u) == NULL # upx[u]

\* unique_ptr::get()
UniqueGet(u) == upx[u]

\* the value of a raw pointer, as the comparison operators see it: the
\* address of the object.  NULL is 0; the allocator serves objects of class A
\* upwards from the bottom of the heap and the larger objects of class B
\* downwards from its top, so that of two objects either may be the lower
Address(p) ==
    IF p = NULL THEN 0
    ELSE IF objs[p].dyn = "B" THEN 2 * MaxObj + 1 - p ELSE p

\* operator==(const shared_ptr<T>& l, const shared_ptr<U>& r)
OperatorEq(l, r) == Address(Get(l)) = Address(Get(r))

\* operator!=
OperatorNe(l, r) == Address(Get(l)) # Address(Get(r))

\* faulty variant of OperatorLe: compares with <
OperatorLe_Strict(l, r) == Address(Get(l)) < Address(Get(r))

\* operator<=
OperatorLe(l, r) == Address(Get(l)) <= Address(Get(r))

\* operator<
OperatorLt(l, r) == Address(Get(l)) < Address(Get(r))

\* operator>=
OperatorGe(l, r) == Address(Get(l)) >= Address(Get(r))

\* operator>
OperatorGt(l, r) == Address(Get(l)) > Address(Get(r))

\* operator==(const unique_ptr<T>& l, const unique_ptr<U>& r)
UniqueOperatorEq(l, r) == Address(UniqueGet(l)) = Address(UniqueGet(r))

\* operator!= (unique_ptr)
UniqueOperatorNe(l, r) == Address(UniqueGet(l)) # Address(UniqueGet(r))

\* operator<= (unique_ptr)
UniqueOperatorLe(l, r) == Address(UniqueGet(l)) <= Address(UniqueGet(r))

\* operator< (unique_ptr)
UniqueOperatorLt(l, r) == Address(UniqueGet(l)) < Address(UniqueGet(r))

\* operator>= (unique_ptr)
UniqueOperatorGe(l, r) == Address(UniqueGet(l)) >= Address(UniqueGet(r))

\* operator> (unique_ptr)
UniqueOperatorGt(l, r) == Address(UniqueGet(l)) > Address(UniqueGet(r))

\* the live handles whose native pointer is the object o
Owners(o) == {h \in Slots : live[h] /\ px[h] = o}

\* the live handles whose counter pointer is the cell c
Sharers(c) == {h \in Slots : live[h] /\ pn[h] = c}

\* ---------------------------------------------------------------- claims

\* C1: in every state reached by any sequence of constructions, copies,
\* converting copies, assignments, resets, swaps, pointer casts, container
\* push_back/pop_back and destructions that adopts each raw pointer once,
\* use_count() of every non-empty live handle is the number of live handles
\* whose pointer is that handle's object.
C1_UseCountIsNumberOfOwners ==
    \A h \in Slots :
        (live[h] /\ px[h] # NULL) => UseCount(h) = Cardinality(Owners(px[h]))

\* C1 witness: a push_back has made a third owner of an object, one of them
\* a handle of the other static type.
C1_Witness ==
    /\ last.op = "push_back"
    /\ UseCount(last.dst) = 3
    /\ \E h \in Owners(px[last.dst]) : StaticType(h) = "B"

\* C2: an object is deleted at most once, never while a live handle points
\* to it, and only in a step in which the use count of its last owner goes
\* from 1 to 0; its counter cell is freed in that same step, and a counter
\* cell is freed only together with its object.
C2_DestroyedOnceWithLastOwner ==
    [][ /\ \A o \in 1..Len(objs') :
             /\ objs'[o].dtor <= 1
             /\ \A h \in Slots : (live'[h] /\ px'[h] = o) => objs'[o].alive
             /\ (o <= Len(objs) /\ objs[o].alive /\ ~objs'[o].alive) =>
                   \E h \in Slots :
                       /\ live[h] /\ px[h] = o /\ Owners(o) = {h}
                       /\ UseCount(h) = 1
                       /\ cells[pn[h]].alive /\ ~cells'[pn[h]].alive
                       /\ cells'[pn[h]].val = 0
        /\ \A c \in 1..Len(cells) :
             (cells[c].alive /\ ~cells'[c].alive) =>
                   \E h \in Slots :
                       /\ live[h] /\ pn[h] = c /\ px[h] # NULL
                       /\ objs[px[h]].alive /\ ~objs'[px[h]].alive
      ]_vars

\* C2 witness: a destructor or reset() has just run and an object is deleted,
\* once, with its counter cell freed and no handle left on either.
C2_Witness ==
    /\ pc = "idle" /\ last.op \in {"dtor", "reset"}
    /\ \E o \in 1..Len(objs), c \in 1..Len(cells) :
          /\ ~objs[o].alive /\ objs[o].dtor = 1
          /\ ~cells[c].alive /\ cells[c].val = 0
          /\ Owners(o) = {} /\ Sharers(c) = {}

\* C3: no object and no counter cell is left without a handle: every object
\* that is alive is the object of some live handle, and every counter cell
\* that is alive is the counter of some live handle, also after a failed
\* counter allocation.
C3_NoOrphan ==
    /\ \A o \in 1..Len(objs) : objs[o].alive => Owners(o) # {}
    /\ \A c \in 1..Len(cells) : cells[c].alive => Sharers(c) # {}

\* C3 witness: all handles are gone again after one object was adopted and
\* released and the adoption of another failed on the counter allocation:
\* both objects are deleted.
C3_Witness ==
    /\ sig = "bad_alloc"
    /\ \A h \in Slots : ~live[h]
    /\ Len(objs) = 2 /\ Len(cells) = 1
    /\ \A o \in 1..Len(objs) : ~objs[o].alive /\ objs[o].dtor = 1

\* C4 (as stated): when the counter allocation fails inside reset(p) on a
\* handle that holds an object, the handle still holds that object with its
\* previous use_count() and the object has not been released.
C4_FailedResetLeavesHandle ==
    [][ (last'.op = "reset_p" /\ sig' # "none" /\ px[last'.dst] # NULL) =>
            /\ px'[last'.dst] = px[last'.dst]
            /\ pn'[last'.dst] = pn[last'.dst]
            /\ CountUseCount(cells', pn'[last'.dst]) = UseCount(last'.dst)
            /\ objs'[px[last'.dst]].alive
      ]_vars

AssignReleasesLast ==
    /\ (pc = "idle" /\ pc' = "assign_swap") =>
          /\ objs' = objs
          /\ px'[last'.dst] = px[last'.dst] /\ pn'[last'.dst] = pn[last'.dst]
          /\ pn'[Tmp] = pn[last'.src] /\ px'[Tmp] = px[last'.src]
          /\ \A c \in 1..Len(cells) :
                cells'[c].val = cells[c].val + (IF c = pn[last'.src] THEN 1 ELSE 0)
    /\ (pc = "assign_swap" /\ pc' = "assign_dtor") =>
          /\ objs' = objs /\ cells' = cells
          /\ px'[last.dst] = px[Tmp] /\ pn'[last.dst] = pn[Tmp]
          /\ px'[Tmp] = px[last.dst] /\ pn'[Tmp] = pn[last.dst]
    /\ (pc = "assign_dtor" /\ pc' = "idle") =>
          /\ ~live'[Tmp]
          /\ \A c \in 1..Len(cells) :
                cells'[c].val = cells[c].val - (IF c = pn[Tmp] THEN 1 ELSE 0)

\* what a = b satisfies when a is b or shares b's counter: no counter reaches
\* 0 and no object is deleted in any of its steps, and afterwards a and b
\* report the use_count() that b reported before
SameLineageAssignKeeps ==
    (last'.op = "assign" /\ last'.same) =>
        /\ objs' = objs
        /\ \A c \in 1..Len(cells) : cells[c].alive => cells'[c].val >= 1
        /\ pc' = "idle" =>
              /\ CountUseCount(cells', pn'[last'.dst]) = last'.cnt
              /\ CountUseCount(cells', pn'[last'.src]) = last'.cnt
              /\ px'[last'.dst] = px'[last'.src]

\* C6: in a = b the count of b's lineage is incremented before the share a
\* held is released, the release being the last step of the assignment; so
\* a = a and a = b between handles of one lineage never bring the count to
\* 0, never delete the object and leave use_count() unchanged.
C6_AssignIncrementsBeforeRelease ==
    [][AssignReleasesLast /\ SameLineageAssignKeeps]_vars

\* C6 witness: a = a has completed on the only owner of an object, which is
\* alive with use_count() 1.
C6_Witness ==
    /\ pc = "idle" /\ last.op = "assign" /\ last.src = last.dst
    /\ last.same /\ last.cnt = 1
    /\ UseCount(last.dst) = 1 /\ objs[px[last.dst]].alive

\* what the copy constructor satisfies: the new handle d has the pointer and
\* the counter of src, the count of a non-empty src is one higher, an empty
\* src gives an empty d, and the objects are untouched
CopyShares(d, src) ==
    /\ live'[d] /\ px'[d] = px[src] /\ pn'[d] = pn[src]
    /\ px'[src] = px[src] /\ pn'[src] = pn[src]
    /\ CountUseCount(cells', pn'[d]) =
          IF px[src] # NULL THEN UseCount(src) + 1 ELSE 0
    /\ px[src] = NULL => pn'[d] = NULL
    /\ objs' = objs

\* C7 (as stated): a copy construction and a completed copy assignment from
\* a non-empty handle leave both handles with the same object and counter,
\* the count one higher than before, and no object created or deleted; from
\* an empty handle they give an empty handle.
C7_CopyAddsOneDestroysNothing ==
    [][ /\ \A src \in Handles :
             (last'.op = "copy" /\ DoCopyCtor(src)) =>
                CopyShares(Var(StaticType(src)), src)
        /\ (last.op = "assign" /\ pc = "assign_dtor" /\ pc' = "idle") =>
             /\ px'[last.dst] = px'[last.src] /\ pn'[last.dst] = pn'[last.src]
             /\ CountUseCount(cells', pn'[last.dst]) =
                   IF last.cnt > 0 THEN last.cnt + 1 ELSE 0
             /\ objs' = objs
      ]_vars

\* C7 (amended): a copy construction from a non-empty handle leaves both
\* handles with the same object and counter, the count one higher, and no
\* object created or deleted.  A completed a = b leaves both handles with
\* the same object and counter; the count is one higher than b's was when a
\* did not share b's counter and unchanged when it did; no object is created,
\* and the only object deleted is the one a held before, exactly when a was
\* its last owner.  A copy of an empty handle is empty.
C7_CopyAddsOneToSourceLineage ==
    [][ /\ \A src \in Handles :
             (last'.op = "copy" /\ DoCopyCtor(src)) =>
                CopyShares(Var(StaticType(src)), src)
        /\ (last.op = "assign" /\ pc = "assign_dtor" /\ pc' = "idle") =>
             /\ px'[last.dst] = px'[last.src] /\ pn'[last.dst] = pn'[last.src]
             /\ CountUseCount(cells', pn'[last.dst]) =
                   IF last.cnt = 0 THEN 0
                   ELSE IF last.same THEN last.cnt ELSE last.cnt + 1
             /\ Len(objs') = Len(objs)
             /\ \A o \in 1..Len(objs) :
                   objs'[o].alive =
                      (objs[o].alive /\ ~(px[Tmp] = o /\ UseCount(Tmp) = 1))
      ]_vars

\* C7 witness: a = b has completed where a was the last owner of another
\* object than b's: that object is deleted and a shares b's object, whose
\* count is one higher than before.
C7_Witness ==
    /\ pc = "idle" /\ last.op = "assign" /\ ~last.same /\ last.cnt >= 1
    /\ px[last.dst] = px[last.src] /\ px[last.dst] # NULL
    /\ UseCount(last.dst) = last.cnt + 1
    /\ \E o \in 1..Len(objs) : ~objs[o].alive /\ Len(cells) = 2

\* the operations that adopt a raw pointer
Adopting == {"ctor", "reset_p"}

\* C8: a counter cell is allocated only by a successful adoption of a
\* non-null raw pointer (constructor or reset(p)), exactly one per adoption,
\* so no copy, converting copy, assignment, cast or push_back allocates; and
\* every live handle satisfies the coherence assertion of the copy path, a
\* null pointer or a non-zero count.
C8_OnlyAdoptionAllocates ==
    [][ /\ Len(cells') \in {Len(cells), Len(cells) + 1}
        /\ Len(cells') = Len(cells) + 1 <=>
              (last'.op \in Adopting /\ sig' = "none" /\ pc' = "idle"
                 /\ (pc = "idle") /\ Len(objs') = Len(objs) + 1)
        /\ \A h \in Slots :
              live'[h] => (px'[h] = NULL \/ CountUseCount(cells', pn'[h]) # 0)
      ]_vars

\* C8 witness: after two copies of one adopted pointer three handles share
\* the single counter cell ever allocated.
C8_Witness ==
    /\ last.op \in {"copy", "conv"}
    /\ UseCount(last.dst) = 3
    /\ Len(cells) = 1 /\ Len(objs) = 1

\* C9: h.reset() leaves h empty (use_count() 0, get() NULL, bool false)
\* whatever the number of co-owners; every other handle of h's lineage
\* reports a count lower by one and keeps its object, which stays alive; the
\* object is deleted exactly when h was its last owner, and no other object
\* is touched.
C9_ResetEmptiesReceiver ==
    [][ last'.op = "reset" =>
          /\ px'[last'.dst] = NULL /\ pn'[last'.dst] = NULL
          /\ CountUseCount(cells', pn'[last'.dst]) = 0
          /\ ~(0 < CountUseCount(cells', pn'[last'.dst]))
          /\ live'[last'.dst]
          /\ \A g \in Slots \ {last'.dst} :
                /\ px'[g] = px[g] /\ pn'[g] = pn[g] /\ live'[g] = live[g]
                /\ (live[g] /\ pn[g] # NULL /\ pn[g] = pn[last'.dst]) =>
                      /\ CountUseCount(cells', pn'[g]) = UseCount(g) - 1
                      /\ CountUseCount(cells', pn'[g]) >= 1
                      /\ objs'[px'[g]].alive
          /\ \A o \in 1..Len(objs) :
                objs'[o].alive =
                   (objs[o].alive /\ ~(px[last'.dst] = o /\ UseCount(last'.dst) = 1))
          /\ Len(objs') = Len(objs)
      ]_vars

\* C9 witness: reset() has emptied a handle whose former co-owners still
\* hold the live object, two of them.
C9_Witness ==
    /\ last.op = "reset" /\ px[last.dst] = NULL /\ UseCount(last.dst) = 0
    /\ Len(objs) = 1 /\ objs[1].alive
    /\ Cardinality(Owners(1)) = 2
    /\ \A g \in Owners(1) : UseCount(g) = 2

\* C10: h.reset(p) with a fresh non-null p, when the counter allocation
\* succeeds, makes h the only owner of p with use_count() 1 on a new counter
\* cell no other handle has; the handles that shared h's old object keep it,
\* alive, with a count lower by one; h.reset(NULL) leaves h empty.
C10_ResetPtrStartsNewLineage ==
    [][ /\ (last'.op = "reset_p" /\ sig' = "none") =>
             /\ Len(objs') = Len(objs) + 1 /\ Len(cells') = Len(cells) + 1
             /\ px'[last'.dst] = Len(objs') /\ pn'[last'.dst] = Len(cells')
             /\ objs'[Len(objs')].alive
             /\ CountUseCount(cells', pn'[last'.dst]) = 1
             /\ \A g \in Slots \ {last'.dst} :
                   /\ px'[g] = px[g] /\ pn'[g] = pn[g] /\ live'[g] = live[g]
                   /\ px'[g] # px'[last'.dst] /\ pn'[g] # pn'[last'.dst]
                   /\ (live[g] /\ pn[g] # NULL /\ pn[g] = pn[last'.dst]) =>
                         /\ CountUseCount(cells', pn'[g]) = UseCount(g) - 1
                         /\ objs'[px'[g]].alive
                   /\ (live[g] /\ pn[g] # NULL /\ pn[g] # pn[last'.dst]) =>
                         CountUseCount(cells', pn'[g]) = UseCount(g)
        /\ last'.op = "reset_null" =>
             /\ sig' = "none"
             /\ px'[last'.dst] = NULL /\ pn'[last'.dst] = NULL
             /\ CountUseCount(cells', pn'[last'.dst]) = 0
      ]_vars

\* C10 witness: reset(p) has moved a handle from a shared object to a new
\* one: it is the only owner of the second object, and the first object is
\* alive with its remaining owner.
C10_Witness ==
    /\ last.op = "reset_p" /\ sig = "none"
    /\ Len(objs) = 2 /\ objs[1].alive /\ objs[2].alive
    /\ px[last.dst] = 2 /\ UseCount(last.dst) = 1 /\ Owners(2) = {last.dst}
    /\ Cardinality(Owners(1)) = 1
    /\ \A g \in Owners(1) : UseCount(g) = 1

\* C11: reset(p) with p the non-null pointer the receiver holds fails the
\* auto-reset assertion, for shared_ptr and for unique_ptr, before anything
\* is released: the program ends there with every pointer, counter and
\* object as before, nothing deleted; reset(NULL) never fails it; and no
\* object is ever deleted twice.
C11_SelfResetAsserts ==
    [][ /\ last'.op = "reset_self" =>
             /\ sig' = "assert" /\ pc' = "halted"
             /\ px' = px /\ pn' = pn /\ live' = live
             /\ objs' = objs /\ cells' = cells
             /\ objs'[px'[last'.dst]].alive
        /\ last'.op = "u_reset_self" =>
             /\ sig' = "assert" /\ pc' = "halted"
             /\ upx' = upx /\ ulive' = ulive
             /\ objs' = objs
             /\ objs'[upx'[last'.dst]].alive
        /\ last'.op \in {"reset_null", "u_reset_null"} => sig' = "none"
        /\ \A o \in 1..Len(objs') : objs'[o].dtor <= 1
      ]_vars

\* C11 witness: x.reset(x.get()) on a shared_ptr with a co-owner has failed
\* the assertion; both still hold the live object with use_count() 2.
C11_Witness ==
    /\ last.op = "reset_self" /\ sig = "assert" /\ pc = "halted"
    /\ UseCount(last.dst) = 2
    /\ Cardinality(Owners(px[last.dst])) = 2
    /\ objs[px[last.dst]].alive /\ objs[px[last.dst]].dtor = 0

\* the live handles on object o after the step
OwnersAfter(o) == {h \in Slots : live'[h] /\ px'[h] = o}

\* an object is deleted in a step exactly when the step takes its last
\* owner away, whatever the static types of its owners
DiesWithLastOwner ==
    \A o \in 1..Len(objs) :
        /\ (objs[o].alive /\ ~objs'[o].alive) =>
              Cardinality(Owners(o)) = 1 /\ OwnersAfter(o) = {}
        /\ (objs[o].alive /\ Owners(o) # {} /\ OwnersAfter(o) = {}) =>
              ~objs'[o].alive

\* C12: static_pointer_cast<T> of a non-empty handle gives a handle with the
\* source's pointer and counter and adds exactly one to the use_count() of
\* every handle of the lineage; of an empty handle it gives an empty handle;
\* it allocates no counter and creates or deletes no object; and an object
\* is deleted exactly when its last handle, of whichever static type, goes.
C12_StaticCastShares ==
    [][ /\ \A T \in Types, src \in Handles :
             (last'.op = "static_cast" /\ DoStaticCast(T, src)) =>
                /\ sig' = "none" /\ live'[Var(T)]
                /\ px'[Var(T)] = px[src] /\ pn'[Var(T)] = pn[src]
                /\ Len(cells') = Len(cells) /\ objs' = objs
                /\ \A g \in Slots \ {Var(T)} :
                      /\ px'[g] = px[g] /\ pn'[g] = pn[g] /\ live'[g] = live[g]
                /\ IF px[src] # NULL
                   THEN /\ CountUseCount(cells', pn'[Var(T)]) = UseCount(src) + 1
                        /\ \A g \in Slots :
                              (live[g] /\ pn[g] = pn[src]) =>
                                 CountUseCount(cells', pn'[g]) = UseCount(g) + 1
                   ELSE /\ pn'[Var(T)] = NULL /\ cells' = cells
                        /\ CountUseCount(cells', pn'[Var(T)]) = 0
        /\ DiesWithLastOwner
      ]_vars

\* C12 witness: static_pointer_cast<B> of a shared_ptr<A> has just made a
\* shared_ptr<B>: the two handles, of both static types, hold the live object
\* with use_count() 2 on the only counter allocated.
C12_Witness ==
    /\ last.op = "static_cast" /\ sig = "none"
    /\ StaticType(last.dst) = "B" /\ px[last.dst] # NULL
    /\ UseCount(last.dst) = 2
    /\ \E g \in Owners(px[last.dst]) : StaticType(g) = "A" /\ UseCount(g) = 2
    /\ objs[px[last.dst]].alive /\ Len(cells) = 1

\* the object of src is a T at run time (dynamic_cast<T*> gives non-null)
RuntimeMatch(src, T) ==
    IF px[src] = NULL THEN FALSE ELSE Convertible(objs[px[src]].dyn, T)

\* C13: dynamic_pointer_cast<T>: when the object of the source is no T (or
\* the source is empty) the result is an empty handle and the source, its
\* use_count() and its object are as before; when it is a T the result has
\* the source's pointer and counter and every handle of the lineage reports
\* one more.  No counter is allocated and no object created or deleted.
C13_DynamicCastSharesOrEmpty ==
    [][ \A T \in Types, src \in Handles :
           (last'.op = "dynamic_cast" /\ DoDynamicCast(T, src)) =>
              /\ sig' = "none" /\ live'[Var(T)]
              /\ Len(cells') = Len(cells) /\ objs' = objs
              /\ \A g \in Slots \ {Var(T)} :
                    /\ px'[g] = px[g] /\ pn'[g] = pn[g] /\ live'[g] = live[g]
              /\ IF RuntimeMatch(src, T)
                 THEN /\ px'[Var(T)] = px[src] /\ pn'[Var(T)] = pn[src]
                      /\ CountUseCount(cells', pn'[Var(T)]) = UseCount(src) + 1
                      /\ \A g \in Slots :
                            (live[g] /\ pn[g] = pn[src]) =>
                               CountUseCount(cells', pn'[g]) = UseCount(g) + 1
                 ELSE /\ px'[Var(T)] = NULL /\ pn'[Var(T)] = NULL
                      /\ CountUseCount(cells', pn'[Var(T)]) = 0
                      /\ cells' = cells
                      /\ CountUseCount(cells', pn'[src]) = UseCount(src)
      ]_vars

\* C13 witness: dynamic_pointer_cast<B> of the only handle of the program, a
\* shared_ptr<A> on an A object, has given an empty shared_ptr<B>; the source
\* holds its live object with use_count() 1.
C13_Witness ==
    /\ last.op = "dynamic_cast" /\ sig = "none"
    /\ StaticType(last.dst) = "B" /\ px[last.dst] = NULL /\ pn[last.dst] = NULL
    /\ \E g \in Handles :
          /\ {h \in Slots : live[h]} = {g, last.dst} /\ g # last.dst
          /\ px[g] # NULL /\ objs[px[g]].dyn = "A" /\ objs[px[g]].alive
          /\ UseCount(g) = 1

\* what the destruction or reset() of a handle does to the object it held:
\* the object stays alive exactly when another live handle, of whichever
\* static type, holds it
SurvivesWhileOwned ==
    (last'.op \in {"dtor", "reset"} /\ px[last'.dst] # NULL) =>
        (objs'[px[last'.dst]].alive <=> Owners(px[last'.dst]) \ {last'.dst} # {})

\* the step that completes a converting assignment a = b
ConvAssignDone ==
    /\ last.op = "assign" /\ pc = "assign_dtor" /\ pc' = "idle"
    /\ StaticType(last.dst) # StaticType(last.src)

\* C14 (as stated): every converting copy and every converting assignment
\* from a non-empty shared_ptr<B> to a shared_ptr<A> puts the handle on the
\* source's counter, raises the shared count by one and creates and deletes
\* no object; the object outlives the derived-typed handles while a
\* base-typed handle remains and is deleted when the last handle goes.
C14_ConversionAddsOneDestroysNothing ==
    [][ /\ \A T \in Types, src \in Handles :
             (last'.op = "conv" /\ DoConvCtor(T, src)) => CopyShares(Var(T), src)
        /\ (ConvAssignDone /\ StaticType(last.src) = "B" /\ last.cnt > 0) =>
             /\ px'[last.dst] = px'[last.src] /\ pn'[last.dst] = pn'[last.src]
             /\ CountUseCount(cells', pn'[last.dst]) = last.cnt + 1
             /\ objs' = objs
        /\ SurvivesWhileOwned
      ]_vars

\* C14 (amended): a converting copy puts the new handle on the source's
\* counter, raises the shared count by one and creates and deletes no
\* object.  A converting assignment a = b puts a on b's counter; the count is
\* one higher than before when a was not on that counter and unchanged when
\* it was; no object is created, b's object is not deleted, and the object a
\* held before is deleted exactly when a was its last owner.  The object
\* outlives the derived-typed handles while a base-typed handle remains and
\* is deleted when the last handle goes.
C14_ConversionJoinsLineage ==
    [][ /\ \A T \in Types, src \in Handles :
             (last'.op = "conv" /\ DoConvCtor(T, src)) => CopyShares(Var(T), src)
        /\ ConvAssignDone =>
             /\ px'[last.dst] = px'[last.src] /\ pn'[last.dst] = pn'[last.src]
             /\ CountUseCount(cells', pn'[last.dst]) =
                   IF last.cnt = 0 THEN 0
                   ELSE IF last.same THEN last.cnt ELSE last.cnt + 1
             /\ Len(objs') = Len(objs)
             /\ px'[last.src] # NULL => objs'[px'[last.src]].alive
             /\ \A o \in 1..Len(objs) :
                   objs'[o].alive =
                      (objs[o].alive /\ ~(px[Tmp] = o /\ UseCount(Tmp) = 1))
        /\ SurvivesWhileOwned
      ]_vars

\* C14 witness: after shared_ptr<A> aPtr = bPtr and a0Ptr = bPtr the
\* converting assignment has completed with use_count() 3: the shared_ptr<B>
\* and the two shared_ptr<A> are on one counter and hold the one B object.
C14_Witness ==
    /\ pc = "idle" /\ last.op = "assign" /\ ~last.same /\ last.cnt = 2
    /\ StaticType(last.dst) = "A" /\ StaticType(last.src) = "B"
    /\ UseCount(last.dst) = 3 /\ Sharers(pn[last.dst]) = Handles
    /\ objs[px[last.dst]].dyn = "B" /\ objs[px[last.dst]].alive
    /\ Len(objs) = 1 /\ Len(cells) = 1

\* C15 (as stated): no call of the two-argument constructor
\* shared_ptr(const shared_ptr<U>& ptr, T* p) gives a handle that has a
\* counter and a null pointer, or a counter it did not increment: the call
\* either fails an assertion or leaves the new handle without counter, or
\* with a non-null pointer and a counter one higher than before (1 for a
\* newly allocated counter).
C15_TwoArgCtorKeepsCoherence ==
    [][ (last'.op = "share" /\ sig' # "assert") =>
           \/ pn'[last'.dst] = NULL
           \/ /\ px'[last'.dst] # NULL
              /\ cells'[pn'[last'.dst]].val =
                    IF pn'[last'.dst] <= Len(cells)
                    THEN cells[pn'[last'.dst]].val + 1 ELSE 1
      ]_vars

\* C16: in every reachable state, for every live shared_ptr (the parameter
\* of a running operator= included), the boolean conversion is true exactly
\* when use_count() > 0, exactly when get() is not NULL, and exactly when the
\* handle has a counter.
C16_BoolIffCountIffPointer ==
    \A h \in Slots :
        live[h] =>
            /\ OperatorBool(h) <=> UseCount(h) > 0
            /\ OperatorBool(h) <=> Get(h) # NULL
            /\ pn[h] # NULL <=> Get(h) # NULL

\* C16 witness: a handle emptied by reset() converts to false with no
\* counter and no pointer, next to a vector element and another handle that
\* convert to true and share a live object.
C16_Witness ==
    /\ last.op = "reset" /\ vlen = 1
    /\ ~OperatorBool(last.dst) /\ Get(last.dst) = NULL /\ pn[last.dst] = NULL
    /\ \E g \in Handles \ {last.dst} :
          /\ live[g] /\ ~InVec(g) /\ OperatorBool(g) /\ UseCount(g) = 2
          /\ Get(g) = Get(VecElem(1)) /\ objs[Get(g)].alive

\* after the step the shared_ptr h is empty: use_count() 0, unique() false,
\* boolean false, get() NULL
EmptyAfter(h) ==
    /\ live'[h]
    /\ CountUseCount(cells', pn'[h]) = 0
    /\ ~(1 = CountUseCount(cells', pn'[h]))
    /\ ~(0 < CountUseCount(cells', pn'[h]))
    /\ px'[h] = NULL

\* after the step the unique_ptr u is empty: boolean false, get() NULL
UniqueEmptyAfter(u) == ulive'[u] /\ ~(NULL # upx'[u]) /\ upx'[u] = NULL

\* C17: a shared_ptr that is default-constructed, constructed from NULL,
\* copied, converted or assigned from an empty handle, or reset, has
\* use_count() 0, unique() false, boolean false and get() NULL; a unique_ptr
\* made or reset in these ways has boolean false and get() NULL; and reset()
\* on an empty handle of either class changes nothing.
C17_EmptyHandleObservers ==
    [][ /\ last'.op \in {"default", "ctor_null", "reset", "reset_null"} =>
             EmptyAfter(last'.dst)
        /\ \A src \in Handles :
             (last'.op = "copy" /\ px[src] = NULL /\ DoCopyCtor(src)) =>
                EmptyAfter(Var(StaticType(src)))
        /\ \A T \in Types, src \in Handles :
             (last'.op = "conv" /\ px[src] = NULL /\ DoConvCtor(T, src)) =>
                EmptyAfter(Var(T))
        /\ (last.op = "assign" /\ pc = "assign_dtor" /\ pc' = "idle"
              /\ last.cnt = 0) =>
             EmptyAfter(last.dst) /\ EmptyAfter(last.src)
        /\ (last'.op = "reset" /\ px[last'.dst] = NULL) =>
             /\ px' = px /\ pn' = pn /\ live' = live
             /\ objs' = objs /\ cells' = cells /\ sig' = "none"
        /\ last'.op \in {"u_default", "u_ctor_null", "u_reset", "u_reset_null"} =>
             UniqueEmptyAfter(last'.dst)
        /\ \A src \in UHandles :
             (last'.op = "u_copy" /\ upx[src] = NULL /\ DoUniqueCopyCtor(src)) =>
                UniqueEmptyAfter(UVar)
        /\ \A a, b \in UHandles :
             (last'.op = "u_assign" /\ upx[b] = NULL /\ DoUniqueAssign(a, b)) =>
                UniqueEmptyAfter(a)
        /\ (last'.op = "u_reset" /\ upx[last'.dst] = NULL) =>
             upx' = upx /\ ulive' = ulive /\ objs' = objs /\ sig' = "none"
      ]_vars

\* C17 witness: a shared_ptr that was the last owner of an object has been
\* assigned from an empty shared_ptr: the object is deleted and both handles
\* are empty, while a default-constructed unique_ptr is empty too.
C17_Witness ==
    /\ pc = "idle" /\ last.op = "assign" /\ last.cnt = 0
    /\ last.src # last.dst
    /\ ~OperatorBool(last.dst) /\ ~Unique(last.dst)
    /\ UseCount(last.dst) = 0 /\ Get(last.dst) = NULL
    /\ Len(objs) = 1 /\ ~objs[1].alive /\ objs[1].dtor = 1
    /\ \E u \in UHandles : ulive[u] /\ ~UniqueOperatorBool(u) /\ UniqueGet(u) = NULL

\* C18: the constructor from a non-null raw pointer p, when it returns,
\* gives a handle with get() = p, use_count() 1, unique() true and boolean
\* true on a counter allocated by this call, which no other handle has; the
\* constructor from a null pointer gives an empty handle and allocates no
\* counter.  Nothing else changes.
C18_PtrCtorStartsAtOne ==
    [][ /\ (last'.op = "ctor" /\ sig' = "none") =>
             /\ live'[last'.dst] /\ ~live[last'.dst]
             /\ Len(objs') = Len(objs) + 1 /\ px'[last'.dst] = Len(objs')
             /\ objs'[Len(objs')].alive
             /\ Len(cells') = Len(cells) + 1 /\ pn'[last'.dst] = Len(cells')
             /\ CountUseCount(cells', pn'[last'.dst]) = 1
             /\ 1 = CountUseCount(cells', pn'[last'.dst])
             /\ 0 < CountUseCount(cells', pn'[last'.dst])
             /\ \A g \in Slots \ {last'.dst} :
                   /\ px'[g] = px[g] /\ pn'[g] = pn[g] /\ live'[g] = live[g]
                   /\ pn'[g] # pn'[last'.dst] /\ px'[g] # px'[last'.dst]
             /\ \A c \in 1..Len(cells) : cells'[c] = cells[c]
             /\ \A o \in 1..Len(objs) : objs'[o] = objs[o]
        /\ last'.op = "ctor_null" =>
             /\ sig' = "none" /\ live'[last'.dst]
             /\ px'[last'.dst] = NULL /\ pn'[last'.dst] = NULL
             /\ CountUseCount(cells', pn'[last'.dst]) = 0
             /\ cells' = cells /\ objs' = objs
      ]_vars

\* C18 witness: shared_ptr<A> constructed from new B while another object is
\* owned: unique, use_count() 1, on the second counter allocated.
C18_Witness ==
    /\ last.op = "ctor" /\ sig = "none"
    /\ StaticType(last.dst) = "A" /\ Get(last.dst) = 2 /\ objs[2].dyn = "B"
    /\ UseCount(last.dst) = 1 /\ Unique(last.dst) /\ OperatorBool(last.dst)
    /\ pn[last.dst] = 2 /\ Sharers(2) = {last.dst}
    /\ objs[1].alive /\ Owners(1) # {}

\* the operations that make a handle sharing the object of another
Copying == {"copy", "conv", "static_cast", "dynamic_cast", "push_back"}

\* the operations that take a handle off its object
Leaving == {"dtor", "reset", "pop_back"}

\* C19: unique() of a live handle is true exactly when the handle holds an
\* object and no other live handle holds that object; it is false for the
\* source and the copy as soon as a copy of a non-empty handle exists, and
\* true again for the remaining owner once the other one of two owners is
\* destroyed or reset.
C19_UniqueIffSoleOwner ==
    [][ /\ \A h \in Slots :
             live'[h] =>
                ((1 = CountUseCount(cells', pn'[h])) <=>
                    (px'[h] # NULL /\ OwnersAfter(px'[h]) = {h}))
        /\ (last'.op \in Copying /\ px'[last'.dst] # NULL) =>
             \A g \in OwnersAfter(px'[last'.dst]) :
                 ~(1 = CountUseCount(cells', pn'[g]))
        /\ (last'.op \in Leaving /\ px[last'.dst] # NULL
              /\ Cardinality(Owners(px[last'.dst])) = 2) =>
             \A g \in Owners(px[last'.dst]) \ {last'.dst} :
                 /\ ~Unique(g)
                 /\ 1 = CountUseCount(cells', pn'[g])
      ]_vars

\* C19 witness: push_back has just copied the only owner of an object into
\* the vector: use_count() is 2 and unique() is false for the handle, which
\* was unique before, and for the vector element.
C19_Witness ==
    /\ last.op = "push_back" /\ vlen = 1
    /\ Get(last.dst) # NULL /\ UseCount(last.dst) = 2 /\ ~Unique(last.dst)
    /\ \E g \in Handles \ {last.dst} :
          /\ Owners(Get(last.dst)) = {g, last.dst}
          /\ ~Unique(g) /\ UseCount(g) = 2

\* the heap and the handles after the step
After == [px |-> px', pn |-> pn', live |-> live', objs |-> objs',
          cells |-> cells', sig |-> "none", upx |-> upx', ulive |-> ulive',
          utype |-> utype']

\* C20: a.swap(b) exchanges the pointer and the counter of two shared_ptr,
\* the pointer of two unique_ptr: each handle then holds and reports what
\* the other did; no count changes, no object or counter is created or
\* deleted and no other handle changes; swapping the two again gives the
\* state before the first swap, and a.swap(a) changes nothing.
C20_SwapExchanges ==
    [][ /\ \A a, b \in Handles :
             (last'.op = "swap" /\ DoSwap(a, b)) =>
                /\ sig' = "none"
                /\ px'[a] = px[b] /\ pn'[a] = pn[b]
                /\ px'[b] = px[a] /\ pn'[b] = pn[a]
                /\ CountUseCount(cells', pn'[a]) = UseCount(b)
                /\ CountUseCount(cells', pn'[b]) = UseCount(a)
                /\ cells' = cells /\ objs' = objs /\ live' = live
                /\ \A g \in Slots \ {a, b} : px'[g] = px[g] /\ pn'[g] = pn[g]
                /\ a = b => (px' = px /\ pn' = pn)
                /\ upx' = upx /\ ulive' = ulive
                /\ Swap(After, a, b) = Cur
        /\ \A a, b \in UHandles :
             (last'.op = "u_swap" /\ DoUniqueSwap(a, b)) =>
                /\ sig' = "none"
                /\ upx'[a] = upx[b] /\ upx'[b] = upx[a]
                /\ objs' = objs /\ ulive' = ulive
                /\ \A g \in USlots \ {a, b} : upx'[g] = upx[g]
                /\ a = b => upx' = upx
                /\ px' = px /\ pn' = pn /\ cells' = cells /\ live' = live
                /\ UniqueSwap(After, a, b) = Cur
      ]_vars

\* C20 witness: after a swap, the shared_ptr<A> first declared holds the
\* second object with use_count() 1 and the other shared_ptr<A> holds the
\* first object, which it shares with the shared_ptr<B>, with use_count() 2;
\* both objects are alive.
C20_Witness ==
    /\ last.op = "swap" /\ last.dst = 2
    /\ Get(2) = 2 /\ UseCount(2) = 1 /\ pn[2] = 2
    /\ Get(3) = 1 /\ UseCount(3) = 2 /\ pn[3] = 1 /\ Get(1) = 1
    /\ objs[1].alive /\ objs[2].alive

\* C21: at any instant at most one unique_ptr holds a non-null pointer to a
\* given object: in every state reached by adoption, copy-as-transfer,
\* converting transfer, assignment, swap, reset, container storage and
\* destruction, with each raw pointer adopted once, no two live unique_ptr
\* have equal non-null get().
C21_AtMostOneHolder ==
    \A u, v \in USlots :
        (u # v /\ ulive[u] /\ ulive[v] /\ UniqueGet(u) # NULL) =>
            UniqueGet(u) # UniqueGet(v)

\* C21 witness: a converting transfer has moved a live object from a
\* unique_ptr<B> to a unique_ptr<A>; the source is still in scope and empty.
C21_Witness ==
    /\ last.op = "u_conv"
    /\ utype[last.dst] = "A" /\ UniqueGet(last.dst) # NULL
    /\ objs[UniqueGet(last.dst)].alive
    /\ \E v \in UHandles :
          v # last.dst /\ ulive[v] /\ utype[v] = "B" /\ UniqueGet(v) = NULL

\* the step moved the pointer of the unique_ptr src into the newly
\* constructed d: src is empty, d holds what src held, and no object was
\* created or destroyed
Transferred(d, src) ==
    /\ sig' = "none"
    /\ ulive'[d] /\ ulive'[src]
    /\ upx'[src] = NULL /\ ~(NULL # upx'[src])
    /\ upx'[d] = upx[src]
    /\ objs' = objs
    /\ \A v \in USlots \ {d, src} : upx'[v] = upx[v]

\* C22: after the copy-construction b(a) of a unique_ptr (also by the
\* converting constructor, and into a container element) a is empty, b holds
\* the pointer a held and no object is destroyed; after the assignment b = a
\* between two handles a is empty, b holds the pointer a held, a's object is
\* untouched and the object b held before is deleted exactly once.  (b = b
\* leaves b and its object as they were.)
C22_TransferEmptiesSource ==
    [][ /\ \A src \in UHandles :
             /\ (last'.op = "u_copy" /\ DoUniqueCopyCtor(src)) =>
                    Transferred(last'.dst, src)
             /\ (last'.op = "u_push_back" /\ DoUniquePushBack(src)) =>
                    Transferred(last'.dst, src)
             /\ \A T \in Types :
                    (last'.op = "u_conv" /\ DoUniqueConvCtor(T, src)) =>
                        Transferred(last'.dst, src)
        /\ \A a, b \in UHandles :
             (last'.op = "u_assign" /\ DoUniqueAssign(a, b)) =>
                 IF a = b
                 THEN upx' = upx /\ objs' = objs /\ sig' = "none"
                 ELSE /\ sig' = "none"
                      /\ upx'[b] = NULL /\ ~(NULL # upx'[b])
                      /\ upx'[a] = upx[b]
                      /\ ulive' = ulive
                      /\ \A o \in 1..Len(objs) :
                            IF o = upx[a]
                            THEN /\ objs[o].alive /\ ~objs'[o].alive
                                 /\ objs'[o].dtor = 1
                            ELSE objs'[o] = objs[o]
                      /\ Len(objs') = Len(objs)
                      /\ \A v \in USlots \ {a, b} : upx'[v] = upx[v]
      ]_vars

\* C22 witness: u1 and u2 each held an object and u1 = u2 has run: u1 holds
\* the object of u2, u2 is empty, and the object u1 held is deleted once.
C22_Witness ==
    /\ last.op = "u_assign" /\ last.dst = 1
    /\ ulive[1] /\ ulive[2]
    /\ UniqueGet(1) = 2 /\ UniqueGet(2) = NULL /\ ~UniqueOperatorBool(2)
    /\ objs[2].alive /\ objs[2].dtor = 0
    /\ ~objs[1].alive /\ objs[1].dtor = 1

\* the live unique_ptr whose pointer is the object o
UniqueOwners(o) == {u \in USlots : ulive[u] /\ upx[u] = o}

\* the operations of a unique_ptr that release what the receiver holds
UniqueReleasing ==
    {"u_dtor", "u_pop_back", "u_reset", "u_reset_null", "u_reset_p", "u_assign"}

\* C23: under any sequence of unique_ptr operations, chains of transfers and
\* storage in a container included, every adopted object is deleted at most
\* once, and only by the destruction, reset or overwriting of the one handle
\* that holds it; destroying an empty handle deletes nothing; an object that
\* is alive is held by exactly one handle, so that once every handle is
\* destroyed no object remains.
C23_UniqueDestroysExactlyOnce ==
    [][ /\ \A o \in 1..Len(objs') :
             /\ objs'[o].dtor <= 1
             /\ objs'[o].alive =>
                   Cardinality({u \in USlots : ulive'[u] /\ upx'[u] = o}) = 1
             /\ (o <= Len(objs) /\ objs[o].alive /\ ~objs'[o].alive) =>
                   /\ last'.op \in UniqueReleasing
                   /\ UniqueOwners(o) = {last'.dst}
                   /\ objs'[o].dtor = 1
                   /\ \A v \in USlots : ulive'[v] => upx'[v] # o
        /\ (last'.op \in {"u_dtor", "u_pop_back"} /\ upx[last'.dst] = NULL) =>
               (objs' = objs /\ ~ulive'[last'.dst])
        /\ (\A u \in USlots : ~ulive'[u]) =>
               \A o \in 1..Len(objs') : ~objs'[o].alive /\ objs'[o].dtor = 1
      ]_vars

\* C23 witness: an object went from a variable into the vector, the emptied
\* variable was destroyed, and pop_back has destroyed the element: no handle
\* is left and every object allocated has been deleted once.
C23_Witness ==
    /\ last.op = "u_pop_back" /\ uvlen = 0
    /\ \A u \in USlots : ~ulive[u]
    /\ Len(objs) = MaxObj
    /\ \A o \in 1..Len(objs) : ~objs[o].alive /\ objs[o].dtor = 1

\* the step deleted, once, the object the unique_ptr u held (if any) and
\* touched no other object and no other handle
ReleasedHeld(u) ==
    /\ \A o \in 1..Len(objs) :
          IF o = upx[u]
          THEN objs[o].alive /\ ~objs'[o].alive /\ objs'[o].dtor = 1
          ELSE objs'[o] = objs[o]
    /\ \A v \in USlots \ {u} : upx'[v] = upx[v]
    /\ ulive' = ulive

\* C24: unique_ptr::reset() deletes the held object, if any, exactly once and
\* leaves the handle empty; reset(p) with a new pointer deletes the object
\* held before exactly once and leaves the handle holding p; neither
\* allocates, so neither can fail on an allocation.
C24_UniqueReset ==
    [][ /\ \A u \in UHandles :
             (last'.op = "u_reset" /\ DoUniqueReset(u)) =>
                 /\ sig' = "none" /\ pc' = "idle"
                 /\ ReleasedHeld(u)
                 /\ upx'[u] = NULL /\ ~(NULL # upx'[u])
                 /\ Len(objs') = Len(objs) /\ cells' = cells
        /\ \A u \in UHandles, X \in Types :
             (last'.op = "u_reset_p" /\ DoUniqueResetPtr(u, X)) =>
                 /\ sig' = "none" /\ pc' = "idle"
                 /\ ReleasedHeld(u)
                 /\ Len(objs') = Len(objs) + 1 /\ cells' = cells
                 /\ upx'[u] = Len(objs') /\ NULL # upx'[u]
                 /\ objs'[upx'[u]] = NewObj(X)
      ]_vars

\* C24 witness: a unique_ptr holding the first object was reset with the
\* second: it holds the second, alive, and the first is deleted once.
C24_Witness ==
    /\ last.op = "u_reset_p" /\ sig = "none"
    /\ UniqueGet(last.dst) = 2 /\ objs[2].alive
    /\ ~objs[1].alive /\ objs[1].dtor = 1
    /\ \A v \in USlots : v # last.dst => UniqueGet(v) = NULL

\* the dynamic type of the object the unique_ptr src holds is (derived
\* from) T
UniqueRuntimeMatch(src, T) ==
    IF upx[src] = NULL THEN FALSE ELSE Convertible(objs[upx[src]].dyn, T)

\* C25 (as stated): the cast helpers of unique_ptr consume the source: after
\* static_pointer_cast, or dynamic_pointer_cast of an object of the target
\* type, the source is empty and the result is the one handle holding the
\* pointer; after a dynamic_pointer_cast that fails the source is unchanged
\* and the result is an empty handle; no object is destroyed.
C25_UniqueCastConsumesSource ==
    [][ \A T \in Types, src \in UHandles :
          /\ (last'.op = "u_static_cast" /\ DoUniqueStaticCast(T, src)
                 /\ upx[src] # NULL) =>
                /\ sig' = "none"
                /\ ulive'[last'.dst] /\ upx'[last'.dst] = upx[src]
                /\ upx'[src] = NULL
                /\ objs' = objs
          /\ (last'.op = "u_dynamic_cast" /\ DoUniqueDynamicCast(T, src)
                 /\ upx[src] # NULL) =>
                /\ sig' = "none"
                /\ ulive'[last'.dst] /\ objs' = objs
                /\ IF UniqueRuntimeMatch(src, T)
                   THEN upx'[last'.dst] = upx[src] /\ upx'[src] = NULL
                   ELSE upx'[last'.dst] = NULL /\ upx'[src] = upx[src]
      ]_vars

\* the two states of a handle after the step: Empty (no pointer, no counter)
\* or Owning (a live object, and for shared_ptr a live counter of at least 1)
EmptyOrOwningAfter(h) ==
    IF px'[h] = NULL
    THEN pn'[h] = NULL
    ELSE /\ pn'[h] # NULL /\ objs'[px'[h]].alive
         /\ cells'[pn'[h]].alive /\ cells'[pn'[h]].val >= 1

UniqueEmptyOrOwningAfter(u) ==
    IF upx'[u] = NULL THEN TRUE ELSE objs'[upx'[u]].alive

\* the destroyed shared_ptr h has given up its share: it has no pointer and
\* no counter left, and its object is deleted if h was the last owner and
\* counted one owner less otherwise
ReleasedByDtor(h) ==
    /\ px'[h] = NULL /\ pn'[h] = NULL
    /\ px[h] # NULL =>
          IF UseCount(h) = 1
          THEN ~objs'[px[h]].alive /\ objs'[px[h]].dtor = 1
          ELSE /\ objs'[px[h]].alive
               /\ cells'[pn[h]].val = cells[pn[h]].val - 1

ComparesEqual(a, b) ==
    /\ OperatorEq(a, b) /\ ~OperatorNe(a, b)
    /\ OperatorLe(a, b) /\ OperatorGe(a, b)
    /\ ~OperatorLt(a, b) /\ ~OperatorGt(a, b)

\* the six comparisons of a and b say "different", with one strict order
ComparesOrdered(a, b) ==
    /\ ~OperatorEq(a, b) /\ OperatorNe(a, b)
    /\ OperatorLt(a, b) # OperatorGt(a, b)
    /\ OperatorLe(a, b) = ~OperatorGt(a, b)
    /\ OperatorGe(a, b) = ~OperatorLt(a, b)
    /\ OperatorLt(a, b) = OperatorGt(b, a)

UniqueComparesEqual(a, b) ==
    /\ UniqueOperatorEq(a, b) /\ ~UniqueOperatorNe(a, b)
    /\ UniqueOperatorLe(a, b) /\ UniqueOperatorGe(a, b)
    /\ ~UniqueOperatorLt(a, b) /\ ~UniqueOperatorGt(a, b)

UniqueComparesOrdered(a, b) ==
    /\ ~UniqueOperatorEq(a, b) /\ UniqueOperatorNe(a, b)
    /\ UniqueOperatorLt(a, b) # UniqueOperatorGt(a, b)
    /\ UniqueOperatorLe(a, b) = ~UniqueOperatorGt(a, b)
    /\ UniqueOperatorGe(a, b) = ~UniqueOperatorLt(a, b)
    /\ UniqueOperatorLt(a, b) = UniqueOperatorGt(b, a)

\* in this state the comparisons of every two handles agree with what the
\* handles hold: equal for one lineage (whatever the static types) and for
\* two empty handles, ordered for two different live objects
ComparisonsAgree ==
    /\ \A a, b \in Slots :
          (live[a] /\ live[b]) =>
             /\ (pn[a] # NULL /\ pn[a] = pn[b]) => ComparesEqual(a, b)
             /\ (~OperatorBool(a) /\ ~OperatorBool(b)) => ComparesEqual(a, b)
             /\ (OperatorBool(a) /\ OperatorBool(b) /\ pn[a] # pn[b]) =>
                    ComparesOrdered(a, b)
    /\ \A a, b \in USlots :
          (ulive[a] /\ ulive[b]) =>
             /\ (~UniqueOperatorBool(a) /\ ~UniqueOperatorBool(b)) =>
                    UniqueComparesEqual(a, b)
             /\ (a # b /\ UniqueOperatorBool(a) /\ UniqueOperatorBool(b)) =>
                    UniqueComparesOrdered(a, b)

\* C27: equality and ordering of two handles of either class, of the same
\* or of different static types, follow their raw pointers: handles of one
\* lineage and any two empty handles compare equal; handles of two distinct
\* live objects compare unequal, exactly one of < and > holds and <= and >=
\* agree with it; and a swap reverses the order of the two handles.
C27_ComparisonsFollowPointers ==
    [][ /\ ComparisonsAgree'
        /\ \A a, b \in Handles :
             (last'.op = "swap" /\ DoSwap(a, b)) =>
                /\ OperatorLt(a, b)' = OperatorLt(b, a)
                /\ OperatorGt(a, b)' = OperatorGt(b, a)
                /\ OperatorLe(a, b)' = OperatorLe(b, a)
                /\ OperatorGe(a, b)' = OperatorGe(b, a)
                /\ OperatorEq(a, b)' = OperatorEq(a, b)
        /\ \A a, b \in UHandles :
             (last'.op = "u_swap" /\ DoUniqueSwap(a, b)) =>
                /\ UniqueOperatorLt(a, b)' = UniqueOperatorLt(b, a)
                /\ UniqueOperatorGt(a, b)' = UniqueOperatorGt(b, a)
                /\ UniqueOperatorLe(a, b)' = UniqueOperatorLe(b, a)
                /\ UniqueOperatorGe(a, b)' = UniqueOperatorGe(b, a)
                /\ UniqueOperatorEq(a, b)' = UniqueOperatorEq(a, b)
      ]_vars

\* C27 witness: after a swap the shared_ptr<A> 2 and 3 hold two live objects,
\* the later allocated one at the lower address, and 2 compares less than 3,
\* while the shared_ptr<B> 1 shares the object of 3 and compares equal to it.
C27_Witness ==
    /\ last.op = "swap" /\ last.dst = 2
    /\ live[1] /\ live[2] /\ live[3]
    /\ Get(2) = 2 /\ Get(3) = 1 /\ Get(1) = 1
    /\ OperatorLt(2, 3) /\ OperatorGt(3, 2) /\ OperatorNe(2, 3)
    /\ OperatorEq(1, 3) /\ OperatorLe(1, 3) /\ OperatorGe(1, 3)

\* the step changed no handle, no counter and no object
HeapUnchanged ==
    /\ px' = px /\ pn' = pn /\ live' = live
    /\ upx' = upx /\ ulive' = ulive
    /\ objs' = objs /\ cells' = cells

\* C28: operator* and operator-> on an empty shared_ptr or unique_ptr raise
\* the assertion instead of returning; on a handle that holds an object they
\* return, to that live object, without asserting; get() never asserts and
\* returns NULL on an empty handle.  (assert active, no NDEBUG.)
C28_DereferenceAsserts ==
    [][ /\ \A h \in Handles :
             /\ (last'.op \in {"star", "arrow"} /\ last'.dst = h) =>
                   /\ HeapUnchanged
                   /\ IF ~OperatorBool(h)
                      THEN sig' = "assert" /\ pc' = "halted"
                      ELSE /\ sig' = "none" /\ pc' = "idle"
                           /\ Get(h) # NULL /\ objs[Get(h)].alive
             /\ (last'.op = "get" /\ last'.dst = h) =>
                   /\ HeapUnchanged /\ sig' = "none" /\ pc' = "idle"
                   /\ ~OperatorBool(h) => px'[h] = NULL
        /\ \A u \in UHandles :
             /\ (last'.op \in {"u_star", "u_arrow"} /\ last'.dst = u) =>
                   /\ HeapUnchanged
                   /\ IF ~UniqueOperatorBool(u)
                      THEN sig' = "assert" /\ pc' = "halted"
                      ELSE /\ sig' = "none" /\ pc' = "idle"
                           /\ objs[UniqueGet(u)].alive
             /\ (last'.op = "u_get" /\ last'.dst = u) =>
                   /\ HeapUnchanged /\ sig' = "none" /\ pc' = "idle"
                   /\ ~UniqueOperatorBool(u) => upx'[u] = NULL
      ]_vars

\* C28 witness: operator* on an empty shared_ptr has ended the program on
\* the assertion, while another handle holds a live object and an object
\* has been deleted before.
C28_Witness ==
    /\ last.op = "star" /\ sig = "assert" /\ pc = "halted"
    /\ live[last.dst] /\ Get(last.dst) = NULL /\ UseCount(last.dst) = 0
    /\ \E g \in Handles : live[g] /\ Get(g) # NULL /\ objs[Get(g)].alive
    /\ \E o \in 1..Len(objs) : ~objs[o].alive

\* the calls that only observe a handle
Observers ==
    {"get", "use_count", "unique", "bool", "compare",
     "u_get", "u_bool", "u_compare"}

\* what every observer returns after the step is what it returned before
SameAnswers ==
    /\ \A h \in Handles :
          live[h] =>
             /\ Get(h)' = Get(h) /\ UseCount(h)' = UseCount(h)
             /\ Unique(h)' = Unique(h) /\ OperatorBool(h)' = OperatorBool(h)
             /\ \A g \in Handles :
                   live[g] =>
                      /\ OperatorEq(h, g)' = OperatorEq(h, g)
                      /\ OperatorLt(h, g)' = OperatorLt(h, g)
                      /\ OperatorLe(h, g)' = OperatorLe(h, g)
    /\ \A u \in UHandles :
          ulive[u] =>
             /\ UniqueGet(u)' = UniqueGet(u)
             /\ UniqueOperatorBool(u)' = UniqueOperatorBool(u)
             /\ \A v \in UHandles :
                   ulive[v] =>
                      /\ UniqueOperatorEq(u, v)' = UniqueOperatorEq(u, v)
                      /\ UniqueOperatorLt(u, v)' = UniqueOperatorLt(u, v)

\* C29: get(), use_count(), unique(), the boolean conversion and the
\* comparison operators change no handle, no counter and no object and
\* always return: after any of them every handle, counter and object is as
\* before, so every later call and operation finds what it would have found
\* without them.
C29_ObserversChangeNothing ==
    [][ last'.op \in Observers =>
            /\ HeapUnchanged /\ vlen' = vlen /\ uvlen' = uvlen /\ utype' = utype
            /\ sig' = "none" /\ pc' = pc
            /\ SameAnswers
      ]_vars

\* C29 witness: use_count() was called on a handle that shares a live
\* object with another handle, and reports 2.
C29_Witness ==
    /\ last.op = "use_count" /\ sig = "none" /\ pc = "idle"
    /\ live[last.dst] /\ UseCount(last.dst) = 2 /\ ~Unique(last.dst)
    /\ objs[Get(last.dst)].alive
    /\ Cardinality(Owners(Get(last.dst))) = 2

\* an object has been destroyed twice
DestroyedTwice == \E o \in 1..Len(objs) : objs[o].dtor > 1

\* an object is destroyed while a handle nobody is destroying still holds it
DestroyedWhileReferenced ==
    \E h \in Handles :
       /\ live[h] /\ ~Claimed(h) /\ px[h] # NULL
       /\ ~objs[px[h]].alive

\* the handles that share the counter n
Lineage(n) == {h \in Handles : live[h] /\ pn[h] = n}

\* between operations, a counter differs from the number of its live handles
CountMismatch ==
    /\ ThreadsIdle
    /\ \E n \in 1..Len(cells) :
          cells[n].alive /\ cells[n].val # Cardinality(Lineage(n))

\* some object of the step was deleted in it
DeletesObject == \E o \in 1..Len(objs) : objs'[o].dtor # objs[o].dtor

\* some counter of the step was written in it
WritesCounter == \E n \in 1..Len(cells) : cells'[n].val # cells[n].val

\* C30: in release the decrement, the zero test and the delete are separate
\* steps that another thread's steps can come between: the step that writes
\* the counter deletes nothing and decides nothing, the zero test writes
\* nothing, and delete runs in a later step on what the test saw.  As long
\* as no two threads have been inside acquire/release of one counter at the
\* same time, no object is destroyed twice or while still referenced and
\* every counter equals the number of its live handles; the bad states are
\* reached, and only by interleaving (see the witness).
C30_CounterUpdateIsARace ==
    [][ /\ WritesCounter =>
              /\ objs' = objs
              /\ \E t \in Threads :
                    /\ thr[t].pc \in {"rel_store", "cp_store"}
                    /\ thr'[t].pc \in {"rel_test", "idle"}
        /\ DeletesObject =>
              /\ cells' = cells
              /\ \E t \in Threads : thr[t].pc = "rel_delete_p"
        /\ \A t \in Threads :
              (thr[t].pc = "rel_test" /\ thr'[t].pc # "rel_test") =>
                 /\ cells' = cells /\ objs' = objs
                 /\ thr'[t].pc \in {"rel_delete_p", "rel_end"}
                 /\ (cells[pn[thr[t].h]].alive /\ cells[pn[thr[t].h]].val # 0)
                       => thr'[t].pc = "rel_end"
        /\ ~raced' =>
              /\ ~DestroyedTwice'
              /\ ~DestroyedWhileReferenced'
              /\ ~CountMismatch'
              /\ sig' \notin {"abort", "assert"}
      ]_vars

\* C30 witness: after two threads raced on its counter, one object has been
\* destroyed twice and a handle still refers to it, and the live counter of
\* the other lineage differs from the number of its live handles.
C30_Witness ==
    /\ raced /\ ThreadsIdle /\ sig = "none"
    /\ DestroyedTwice
    /\ DestroyedWhileReferenced
    /\ CountMismatch

\* the handles (older revision) that hold a share of object o
OldHolders(o) == {h \in Handles : live[h] /\ held[h] /\ px[h] = o}

OldHoldersAfter(o) == {h \in Handles : live'[h] /\ held'[h] /\ px'[h] = o}

\* C31 (older revision): under construct, copy, assign, reset() and destroy
\* an object is destroyed exactly when the last shared_ptr pointing to it is
\* destroyed or reset: no step deletes an object that a handle, neither
\* reset nor destroyed, still points to; delete runs at most once per
\* object; and the step that takes the last such handle away deletes it.
C31_OldDestroyedWithLastOwner ==
    [][ last'.op \in {"o_default", "o_ctor", "o_copy", "o_assign", "o_dtor",
                      "o_reset"} =>
          \A o \in 1..Len(objs) :
             /\ objs'[o].dtor <= 1
             /\ (objs[o].alive /\ ~objs'[o].alive) => OldHoldersAfter(o) = {}
             /\ (objs[o].alive /\ OldHolders(o) # {} /\ OldHoldersAfter(o) = {})
                   => ~objs'[o].alive
      ]_vars

\* C38 (older revision): reset(p) on a handle that shares its object with
\* other handles releases its share and adopts p with a fresh counter of 1:
\* afterwards the handle holds p, its counter was allocated in this step
\* and counts 1, and the other handles keep their object, alive, with the
\* count they had minus one.
C38_OldResetPtrAdoptsFresh ==
    [][ \A h \in Handles :
          ( /\ last'.op = "o_reset_ptr" /\ last'.dst = h /\ sig' = "none"
            /\ held[h] /\ px[h] # NULL /\ Cardinality(OldHolders(px[h])) > 1 ) =>
             /\ px'[h] = Len(objs) + 1 /\ objs'[px'[h]].alive
             /\ pn'[h] = Len(cells) + 1 /\ cells'[pn'[h]].val = 1
             /\ \A g \in OldHolders(px[h]) \ {h} :
                   /\ px'[g] = px[g] /\ pn'[g] = pn[g]
                   /\ objs'[px[g]].alive
                   /\ cells'[pn[g]].val = cells[pn[g]].val - 1
      ]_vars

\* C32: a shared_ptr releases its share at most once.  reset() leaves the
\* handle without counter and without pointer, and takes exactly one from
\* the count the other handles of its lineage see; a reset() or the
\* destruction of a handle that has no counter changes no counter and no
\* object; and a second reset() applied to the state after a reset() gives
\* that same state.
C32_ReleasesAtMostOnce ==
    [][ \A h \in Handles :
          /\ (last'.op = "reset" /\ last'.dst = h) =>
                /\ pn'[h] = NULL /\ px'[h] = NULL
                /\ ResetVoid(After, h) = After
                /\ Dtor(After, h).cells = cells'
                /\ Dtor(After, h).objs = objs'
                /\ \A g \in Handles \ {h} :
                      (live[g] /\ pn[g] # NULL /\ pn[g] = pn[h]) =>
                         /\ pn'[g] = pn[g]
                         /\ cells'[pn[g]].val = cells[pn[g]].val - 1
                         /\ cells'[pn[g]].alive /\ objs'[px[g]].alive
          /\ (last'.op \in {"reset", "dtor", "pop_back"} /\ last'.dst = h
                /\ pn[h] = NULL) =>
                /\ cells' = cells /\ objs' = objs
      ]_vars

\* C32 witness: reset() has just run on a handle that was already empty
\* while another handle holds a live object whose count is 1.
C32_Witness ==
    /\ last.op = "reset" /\ sig = "none"
    /\ live[last.dst] /\ pn[last.dst] = NULL /\ px[last.dst] = NULL
    /\ \E g \in Handles \ {last.dst} :
          /\ live[g] /\ px[g] # NULL /\ objs[px[g]].alive
          /\ UseCount(g) = 1
    /\ \E o \in 1..Len(objs) : ~objs[o].alive

\* the counters that have not been deleted
LiveCells == {n \in 1..Len(cells) : cells[n].alive}

\* the objects that have not been deleted and that no unique_ptr holds
LiveSharedObjs ==
    {o \in 1..Len(objs) :
        objs[o].alive /\ \A u \in USlots : ~(ulive[u] /\ upx[u] = o)}

\* counters and objects of shared_ptr are paired one to one
Paired ==
    /\ \A h, g \in Slots :
          (live[h] /\ live[g] /\ pn[h] # NULL /\ pn[h] = pn[g]) => px[h] = px[g]
    /\ \A h, g \in Slots :
          (live[h] /\ live[g] /\ px[h] # NULL /\ px[h] = px[g]) => pn[h] = pn[g]
    /\ Cardinality(LiveCells) = Cardinality(LiveSharedObjs)

\* the step hands a pointer that a handle manages to a second handle
AdoptsManaged == last'.op \in {"adopt", "reset_adopt"}

\* C33 as stated: with counters shared only through copy, assignment and the
\* cast helpers, the handles of one counter point to one object, no object
\* is pointed to through two counters, and there are as many live counters
\* as live managed objects, after every operation that returns.
C33_CountersPairObjects == [][ sig' = "none" => Paired' ]_vars

\* C33 amended: the pairing holds at the start and is kept by every step
\* that does not give a constructor or reset(p) a pointer that a handle
\* already manages.
C33_PairedUnlessAdoptedTwice ==
    [][ (Paired /\ ~AdoptsManaged) => Paired' ]_vars

\* C33 witness: a cast has just made a shared_ptr<A> and a shared_ptr<B>
\* share one counter for one object while a second object has a counter of
\* its own.
C33_Witness ==
    /\ last.op \in {"static_cast", "dynamic_cast"} /\ sig = "none" /\ Paired
    /\ Cardinality(LiveCells) = 2
    /\ \E h, g \in Handles :
          /\ live[h] /\ live[g] /\ StaticType(h) # StaticType(g)
          /\ pn[h] # NULL /\ pn[h] = pn[g] /\ px[h] = px[g]
          /\ UseCount(h) = 2

\* handle d has taken p into a counter of its own, allocated in this step
\* with value 1, and handle g manages p as before
SecondCounter(d, g, p) ==
    /\ px'[d] = p /\ live'[d]
    /\ pn'[d] = Len(cells) + 1 /\ Len(cells') = Len(cells) + 1
    /\ cells'[pn'[d]].val = 1 /\ cells'[pn'[d]].alive
    /\ px'[g] = p /\ pn'[g] = pn[g] /\ pn'[g] # pn'[d]
    /\ cells'[pn[g]] = cells[pn[g]]
    /\ objs'[p] = objs[p] /\ objs'[p].alive

\* C36: the assertion of reset(p) compares p with the receiver's own pointer
\* only, and the constructor from a pointer has none.  A constructor or a
\* reset(p) given the pointer that another handle manages never asserts,
\* unless the receiver of reset holds that very pointer; when it returns,
\* the shared_ptr has a second counter at 1 for the same object and the
\* other handle keeps its own, and the unique_ptr holds the pointer the
\* other unique_ptr still holds.
C36_AssertionGuardsOwnPointerOnly ==
    [][ /\ \A T \in Types, g \in Handles :
              (last'.op = "adopt" /\ DoPtrCtorAdopt(T, g)) =>
                 /\ sig' # "assert"
                 /\ sig' = "none" => SecondCounter(last'.dst, g, px[g])
        /\ \A h, g \in Handles :
              (last'.op = "reset_adopt" /\ DoResetAdopt(h, g)) =>
                 IF px[h] = px[g]
                 THEN sig' = "assert" /\ HeapUnchanged
                 ELSE /\ sig' # "assert"
                      /\ sig' = "none" => SecondCounter(h, g, px[g])
        /\ \A T \in Types, v \in UHandles :
              (last'.op = "u_adopt" /\ DoUniquePtrCtorAdopt(T, v)) =>
                 /\ sig' = "none" /\ objs' = objs
                 /\ upx'[last'.dst] = upx[v] /\ upx'[v] = upx[v]
                 /\ ulive'[last'.dst] /\ ulive'[v]
        /\ \A u, v \in UHandles :
              (last'.op = "u_reset_adopt" /\ DoUniqueResetAdopt(u, v)) =>
                 IF upx[u] = upx[v]
                 THEN sig' = "assert" /\ HeapUnchanged
                 ELSE /\ sig' = "none"
                      /\ upx'[u] = upx[v] /\ upx'[v] = upx[v]
                      /\ objs'[upx[v]] = objs[upx[v]] /\ objs'[upx[v]].alive
      ]_vars

\* C36 witness: reset(p) with the pointer of another handle has returned on
\* a handle that held another object: two live handles point to one live
\* object through two counters, each at 1, and the receiver's former object
\* is deleted.
C36_Witness ==
    /\ last.op = "reset_adopt" /\ sig = "none"
    /\ \E g \in Handles \ {last.dst} :
          /\ live[g] /\ live[last.dst]
          /\ px[g] # NULL /\ px[g] = px[last.dst] /\ objs[px[g]].alive
          /\ pn[g] # pn[last.dst]
          /\ UseCount(g) = 1 /\ UseCount(last.dst) = 1
    /\ \E o \in 1..Len(objs) : ~objs[o].alive /\ objs[o].dtor = 1

\* C34: between operations every live counter is at least 1.  A counter is
\* created with value 1, a step changes a counter by one at most, a counter
\* that a step brings to 0 is deleted in that step, and no counter is deleted
\* at another value.
C34_LiveCounterAtLeastOne ==
    [][ /\ \A n \in 1..Len(cells') :
              /\ cells'[n].alive => cells'[n].val >= 1
              /\ ~cells'[n].alive => cells'[n].val = 0
        /\ \A n \in (Len(cells) + 1)..Len(cells') :
              cells'[n].alive /\ cells'[n].val = 1
        /\ \A n \in 1..Len(cells) :
              /\ cells'[n].val \in {cells[n].val - 1, cells[n].val,
                                    cells[n].val + 1}
              /\ (cells[n].alive /\ cells'[n].val = 0) => ~cells'[n].alive
              /\ (cells[n].alive /\ ~cells'[n].alive) => cells[n].val = 1
              /\ ~cells[n].alive => cells'[n] = cells[n]
      ]_vars

\* C34 witness: the destruction of its last handle has just brought a
\* counter from 1 to 0 and deleted it, while another counter is live at 2.
C34_Witness ==
    /\ last.op = "dtor" /\ sig = "none" /\ pc = "idle"
    /\ \E n \in 1..Len(cells) : ~cells[n].alive /\ cells[n].val = 0
    /\ \E n \in 1..Len(cells) : cells[n].alive /\ cells[n].val = 2

\* the counters of the handles the step is applied to: those of the receiver
\* and of the parameter of operator=, before and after (the counter a copy
\* or cast joins is its argument's)
OperandCells ==
    {pn[last'.dst], pn'[last'.dst], pn[Tmp], pn'[Tmp]} \ {NULL}

\* the objects of these handles
OperandObjs ==
    {px[last'.dst], px'[last'.dst], px[Tmp], px'[Tmp]} \ {NULL}

\* an object is managed through two counters
SharedTwice ==
    \E h, g \in Slots :
        live[h] /\ live[g] /\ px[h] # NULL /\ px[h] = px[g] /\ pn[h] # pn[g]

\* every counter and object outside the operands' lineages is as before:
\* the handles other than those in hs, the count and the object of every
\* such handle of another counter, and all other counters and objects
OthersUnchanged(hs) ==
    /\ \A n \in 1..Len(cells) : n \notin OperandCells => cells'[n] = cells[n]
    /\ \A o \in 1..Len(objs) : o \notin OperandObjs => objs'[o] = objs[o]
    /\ \A g \in Slots \ hs :
          /\ px'[g] = px[g] /\ pn'[g] = pn[g] /\ live'[g] = live[g]
          /\ (live[g] /\ pn[g] \notin OperandCells) =>
                /\ CountUseCount(cells', pn'[g]) = CountUseCount(cells, pn[g])
                /\ px[g] # NULL => objs'[px[g]] = objs[px[g]]

\* the frame of one step of a shared_ptr operation
FrameOfStep ==
    /\ (last'.op \in {"default", "ctor_null", "ctor", "copy", "conv",
                      "dtor", "reset", "reset_null", "reset_p", "reset_self",
                      "assign", "static_cast", "dynamic_cast",
                      "push_back", "pop_back", "adopt", "reset_adopt"})
          => OthersUnchanged({last'.dst, Tmp})
    /\ \A a, b \in Handles :
          (last'.op = "swap" /\ DoSwap(a, b)) =>
             /\ OthersUnchanged({a, b})
             /\ cells' = cells /\ objs' = objs /\ live' = live

\* C35 as stated: an operation of shared_ptr changes counts and liveness
\* only in the lineages of its receiver and its argument: every handle that
\* is neither, and the count and the object of every other lineage, is as
\* before.
C35_OtherLineagesUnchanged == [][ FrameOfStep ]_vars

\* C35 amended: the same, for every step taken while no object is managed
\* through two counters and that does not give a constructor or reset(p) a
\* pointer that a handle already manages.
C35_OtherLineagesUnlessAdoptedTwice ==
    [][ (~SharedTwice /\ ~AdoptsManaged) => FrameOfStep ]_vars

\* C35 witness: reset() on the one handle of an object has just deleted it
\* while two handles of another lineage keep their object and their count
\* of 2.
C35_Witness ==
    /\ last.op = "reset" /\ sig = "none" /\ pc = "idle"
    /\ live[last.dst] /\ px[last.dst] = NULL
    /\ \E o \in 1..Len(objs) : ~objs[o].alive /\ objs[o].dtor = 1
    /\ \E g, k \in Handles \ {last.dst} :
          /\ g # k /\ live[g] /\ live[k] /\ pn[g] # NULL /\ pn[g] = pn[k]
          /\ UseCount(g) = 2 /\ objs[px[g]].alive

\* C37: a = a on a unique_ptr leaves a holding the object it held, and the
\* object is not destroyed: the parameter takes the pointer, swap gives it
\* back, and the emptied parameter destroys nothing.
C37_UniqueSelfAssignKeeps ==
    [][ \A a \in UHandles :
          (last'.op = "u_assign" /\ DoUniqueAssign(a, a)) =>
             /\ sig' = "none"
             /\ upx'[a] = upx[a] /\ ulive'[a]
             /\ (upx[a] # NULL) =>
                   /\ objs'[upx[a]].alive
                   /\ objs'[upx[a]].dtor = 0
                   /\ UniqueOperatorBool(a)'
                   /\ UniqueOwners(upx[a])' = {a}
             /\ upx'[UTmp] = NULL /\ ~ulive'[UTmp]
             /\ objs' = objs
      ]_vars

\* C37 witness: the only unique_ptr in scope has just been assigned (so to
\* itself) and holds its object, which is alive.
C37_Witness ==
    /\ last.op = "u_assign" /\ sig = "none"
    /\ {u \in USlots : ulive[u]} = {last.dst}
    /\ upx[last.dst] # NULL
    /\ objs[upx[last.dst]].alive /\ objs[upx[last.dst]].dtor = 0

\* the element of the vectors PtrVec and PtrList of unique_ptr_test: one
\* more unique_ptr<Xxx> next to the variables and the parameter of operator=
PtrVecElem == NumUnique + 2

\* the state with the storage of that element, not yet constructed
WithPtrVec(s) ==
    [s EXCEPT !.upx = [u \in USlots \cup {PtrVecElem} |->
                          IF u \in USlots THEN s.upx[u] ELSE NULL],
              !.ulive = [u \in USlots \cup {PtrVecElem} |->
                          IF u \in USlots THEN s.ulive[u] ELSE FALSE],
              !.utype = [u \in USlots \cup {PtrVecElem} |->
                          IF u \in USlots THEN s.utype[u] ELSE "A"]]

\* unique_ptr_test, the inner block: xPtr = move(yPtr), move returning its
\* argument; PtrVec.push_back(xPtr), the element copy-constructed from
\* xPtr; at the closing brace PtrVec and then yPtr are destroyed
UniquePtrTestInner(s, x, y) ==
    LET s1 == UniqueAssign(WithPtrVec(s), x, y)
        s2 == UniqueCopyCtor(s1, PtrVecElem, x)
        s3 == UniqueDtor(s2, PtrVecElem)
    IN UniqueDtor(s3, y)

\* unique_ptr_test, the second block: PtrList.push_back(move(xPtr));
\* xPtr = PtrList.back(); at the closing brace PtrList is destroyed
UniquePtrTestOuter(s, x) ==
    LET s1 == UniqueCopyCtor(s, PtrVecElem, x)
        s2 == UniqueAssign(s1, x, PtrVecElem)
    IN UniqueDtor(s2, PtrVecElem)

\* C39: in unique_ptr_test, with xPtr empty and yPtr holding the new object,
\* after xPtr = move(yPtr), PtrVec.push_back(xPtr) and the end of the inner
\* block xPtr holds the object and the object is alive; it is still so
\* after the second block, and the destruction of xPtr at the end of the
\* function deletes it.
C39_ExampleKeepsOwnership ==
    \A x, y \in UHandles :
        (/\ x # y /\ pc = "idle" /\ sig = "none" /\ uvlen = 0
         /\ ulive[x] /\ ulive[y] /\ utype[x] = "A" /\ utype[y] = "A"
         /\ upx[x] = NULL /\ upx[y] # NULL /\ objs[upx[y]].alive) =>
            LET o == upx[y]
                inner == UniquePtrTestInner(Cur, x, y)
                outer == UniquePtrTestOuter(inner, x)
                exit == UniqueDtor(outer, x)
            IN /\ inner.upx[x] = o /\ inner.objs[o].alive
               /\ outer.upx[x] = o /\ outer.objs[o].alive
               /\ inner.objs[o].dtor = 0 /\ outer.objs[o].dtor = 0
               /\ ~exit.objs[o].alive /\ exit.objs[o].dtor = 1

====
